---- MODULE Spec2Model ----
(***************************************************************************)
(* State-machine model of the DeOrganized API backend: the polymorphic     *)
(* engagement layer (Like / Comment / Follow), the notification fan-out    *)
(* signal handlers, the recurrence evaluator Show.should_air_on_date, the  *)
(* wallet signup flow and the guest-request workflow.                      *)
(*                                                                         *)
(* Every request handler is one action; a handler's database writes and    *)
(* the post_save receivers they trigger are part of that action.  The      *)
(* tables are sets of rows carrying their auto-increment primary key.      *)
(* Each subsystem has its own specification (SpecAir, SpecLike, ...) over  *)
(* the shared variables; the variables a subsystem does not touch keep     *)
(* their initial value there.                                              *)
(***************************************************************************)
EXTENDS Integers, Sequences, FiniteSets, TLC

\* ------------------------------------------------------------------------
\* Bounds of the model
\* ------------------------------------------------------------------------
NumUsers == 2            \* users 1..NumUsers send the requests of the engagement specs
NumContentTypes == 4     \* rows of django_content_type: ids 1..NumContentTypes
MaxLikeId == 3           \* highest Like id of one behaviour
MaxCommentId == 2        \* comments inserted in one behaviour
MaxFollowId == 2         \* follows inserted in one behaviour
MaxNotifications == 3    \* rows of the Notification table
MaxCancelled == 2        \* length of Show.cancelled_instances
MaxUserId == 2           \* users created in one behaviour of the signup spec
MaxGuestRequests == 2    \* rows of the GuestRequest table
NumProcs == 2            \* requests in flight at the same time
MaxShareCalls == 3       \* track_share calls one process makes

None == 0                \* Python None / SQL NULL for ids

VARIABLES
    users,           \* User table: set of [id, username, stacks_address, role]
    nextUserId,
    content,         \* content objects: <<content_type, object_id>> -> owner attributes
    likes,           \* Like table
    nextLikeId,
    comments,        \* Comment table
    nextCommentId,
    follows,         \* Follow table
    nextFollowId,
    notifications,   \* Notification table in insertion order
    guestRequests,   \* GuestRequest table
    nextGuestRequestId,
    guests,          \* Show.guests: show id -> set of user ids
    toggleHist,      \* per (user, target): liked-state before the last two toggles
    airShow,         \* the Show instance should_air_on_date is called on
    airDate,         \* the date argument of the last should_air_on_date call
    airResult,       \* its return value
    last,            \* the last request and its response
    procs            \* the requests in flight of the concurrent specifications

vars == <<users, nextUserId, content, likes, nextLikeId, comments, nextCommentId, follows,
          nextFollowId, notifications, guestRequests, nextGuestRequestId, guests,
          toggleHist,
          airShow, airDate, airResult, last, procs>>

engageVars == <<likes, nextLikeId, comments, nextCommentId, follows, nextFollowId,
                toggleHist>>
guestVars == <<guestRequests, nextGuestRequestId, guests>>
airVars == <<airShow, airDate, airResult>>

NoRequest == [op |-> "none", status |-> 0]

\* ------------------------------------------------------------------------
\* Recurrence evaluator
\* ------------------------------------------------------------------------
\* Calendar dates the evaluator is asked about: Wed 2026-10-28 .. Tue 2026-11-03
\* (every weekday once, across a month boundary).
Dates ==
    { [year |-> 2026, month |-> 10, day |-> d] : d \in 28..31 } \cup
    { [year |-> 2026, month |-> 11, day |-> d] : d \in 1..3 }

IsLeap(y) == (y % 4 = 0) /\ ((y % 100 # 0) \/ (y % 400 = 0))

DaysInMonth(y, m) ==
    IF m = 2 THEN (IF IsLeap(y) THEN 29 ELSE 28)
    ELSE IF m \in {4, 6, 9, 11} THEN 30 ELSE 31

RECURSIVE DaysBeforeMonth(_, _)
DaysBeforeMonth(y, m) ==
    IF m = 1 THEN 0 ELSE DaysBeforeMonth(y, m - 1) + DaysInMonth(y, m - 1)

\* datetime.date.toordinal(): day 1 is 0001-01-01
ToOrdinal(d) ==
    LET y == d.year - 1
    IN  y * 365 + (y \div 4) - (y \div 100) + (y \div 400)
        + DaysBeforeMonth(d.year, d.month) + d.day

\* datetime.date.weekday(): Monday is 0, Sunday is 6
Weekday(d) == (ToOrdinal(d) + 6) % 7

DigitChars == <<"0", "1", "2", "3", "4", "5", "6", "7", "8", "9">>
Digit(n) == DigitChars[n + 1]

\* datetime.date.isoformat(): 'YYYY-MM-DD', zero padded, as a sequence of characters
IsoFormat(d) ==
    << Digit(d.year \div 1000), Digit((d.year \div 100) % 10),
       Digit((d.year \div 10) % 10), Digit(d.year % 10), "-",
       Digit(d.month \div 10), Digit(d.month % 10), "-",
       Digit(d.day \div 10), Digit(d.day % 10) >>

Range(s) == { s[i] : i \in 1..Len(s) }

RecurrenceTypes == {"SPECIFIC_DAY", "DAILY", "WEEKDAYS", "WEEKENDS"}
\* recurrence_type is a nullable, blank-able CharField
RecurrenceValues == RecurrenceTypes \cup {"", "NULL"}
\* day_of_week is a nullable integer, 0 (Monday) .. 6 (Sunday)
NoDay == -1
DayValues == (0..6) \cup {NoDay}

\* Show.should_air_on_date without the cancelled_instances lookup
ShouldAirIgnoringCancelled(show, date) ==
    IF ~show.is_recurring THEN FALSE
    ELSE IF show.recurrence_type = "DAILY" THEN TRUE
    ELSE IF show.recurrence_type = "WEEKDAYS" THEN Weekday(date) < 5
    ELSE IF show.recurrence_type = "WEEKENDS" THEN Weekday(date) >= 5
    ELSE IF show.recurrence_type = "SPECIFIC_DAY" THEN Weekday(date) = show.day_of_week
    ELSE FALSE

\* Show.should_air_on_date with WEEKENDS dispatched as weekday() > 5
ShouldAirSundayOnly(show, date) ==
    IF ~show.is_recurring THEN FALSE
    ELSE IF IsoFormat(date) \in Range(show.cancelled_instances) THEN FALSE
    ELSE IF show.recurrence_type = "DAILY" THEN TRUE
    ELSE IF show.recurrence_type = "WEEKDAYS" THEN Weekday(date) < 5
    ELSE IF show.recurrence_type = "WEEKENDS" THEN Weekday(date) > 5
    ELSE IF show.recurrence_type = "SPECIFIC_DAY" THEN Weekday(date) = show.day_of_week
    ELSE FALSE

\* Show.should_air_on_date without the is_recurring test
ShouldAirWhenNotRecurring(show, date) ==
    IF IsoFormat(date) \in Range(show.cancelled_instances) THEN FALSE
    ELSE IF show.recurrence_type = "DAILY" THEN TRUE
    ELSE IF show.recurrence_type = "WEEKDAYS" THEN Weekday(date) < 5
    ELSE IF show.recurrence_type = "WEEKENDS" THEN Weekday(date) >= 5
    ELSE IF show.recurrence_type = "SPECIFIC_DAY" THEN Weekday(date) = show.day_of_week
    ELSE FALSE

\* Show.should_air_on_date
ShouldAirOnDate(show, date) ==
    IF ~show.is_recurring THEN FALSE
    ELSE IF IsoFormat(date) \in Range(show.cancelled_instances) THEN FALSE
    ELSE IF show.recurrence_type = "DAILY" THEN TRUE
    ELSE IF show.recurrence_type = "WEEKDAYS" THEN Weekday(date) < 5
    ELSE IF show.recurrence_type = "WEEKENDS" THEN Weekday(date) >= 5
    ELSE IF show.recurrence_type = "SPECIFIC_DAY" THEN Weekday(date) = show.day_of_week
    ELSE FALSE

\* cancelled_instances: lists of ISO date strings, as respond_to_reminder appends them
RECURSIVE SeqsUpTo(_, _)
SeqsUpTo(S, n) ==
    IF n = 0 THEN { <<>> }
    ELSE SeqsUpTo(S, n - 1) \cup
         { Append(s, x) : s \in { t \in SeqsUpTo(S, n - 1) : Len(t) = n - 1 }, x \in S }

NoDuplicates(s) == \A i, j \in 1..Len(s) : s[i] = s[j] => i = j

CancelledLists ==
    { s \in SeqsUpTo({ IsoFormat(d) : d \in Dates }, MaxCancelled) : NoDuplicates(s) }

NoDate == [year |-> 1, month |-> 1, day |-> 1]

\* The tables of the other subsystems, empty
\* No request is in flight: the handlers run one after the other
NoProcs == << >>

IdleTables ==
    /\ users = {} /\ nextUserId = 1
    /\ content = << >>
    /\ likes = {} /\ nextLikeId = 1
    /\ comments = {} /\ nextCommentId = 1
    /\ follows = {} /\ nextFollowId = 1
    /\ notifications = << >>
    /\ guestRequests = {} /\ nextGuestRequestId = 1
    /\ guests = << >>
    /\ toggleHist = << >>

InitAir ==
    /\ IdleTables
    /\ procs = NoProcs
    /\ airShow \in [ is_recurring : BOOLEAN,
                     recurrence_type : RecurrenceValues,
                     day_of_week : DayValues,
                     cancelled_instances : CancelledLists ]
    /\ airDate = NoDate
    /\ airResult = "unset"
    /\ last = NoRequest

\* show.should_air_on_date(date), as called by upcoming_instances
CallShouldAirOnDate(date) ==
    /\ airDate' = date
    /\ airResult' = ShouldAirOnDate(airShow, date)
    /\ last' = [op |-> "should_air_on_date", status |-> 200]
    /\ UNCHANGED <<users, nextUserId, content, notifications, airShow>>
    /\ UNCHANGED engageVars
    /\ UNCHANGED guestVars
    /\ UNCHANGED procs

NextAir == \E date \in Dates : CallShouldAirOnDate(date)

SpecAir == InitAir /\ [][NextAir]_vars

AirCalled == last.op = "should_air_on_date"

\* C6: should_air_on_date(d) is false for every date d whose ISO string is in
\* cancelled_instances, whatever recurrence_type and day_of_week are.
C6_CancelledNeverAirs ==
    (AirCalled /\ IsoFormat(airDate) \in Range(airShow.cancelled_instances))
        => airResult = FALSE

\* A cancelled date of a show that would otherwise air on it has been evaluated.
C6_Witness ==
    /\ AirCalled
    /\ IsoFormat(airDate) \in Range(airShow.cancelled_instances)
    /\ airShow.is_recurring
    /\ airShow.recurrence_type = "DAILY"
    /\ airResult = FALSE

Saturday == [year |-> 2026, month |-> 10, day |-> 31]
Wednesday == [year |-> 2026, month |-> 10, day |-> 28]

\* C7: for a recurring show and a date d that is not cancelled, should_air_on_date(d)
\* is true exactly when the type is DAILY, or WEEKDAYS and d is Mon-Fri, or WEEKENDS
\* and d is Sat-Sun, or SPECIFIC_DAY and d's weekday equals day_of_week; Saturday
\* 2026-10-31 airs for a WEEKENDS show and Wednesday 2026-10-28 does not.
C7_RecurrenceDispatch ==
    (AirCalled /\ airShow.is_recurring
               /\ IsoFormat(airDate) \notin Range(airShow.cancelled_instances))
        => /\ airResult =
                ( \/ airShow.recurrence_type = "DAILY"
                  \/ airShow.recurrence_type = "WEEKDAYS" /\ Weekday(airDate) \in 0..4
                  \/ airShow.recurrence_type = "WEEKENDS" /\ Weekday(airDate) \in {5, 6}
                  \/ airShow.recurrence_type = "SPECIFIC_DAY"
                        /\ Weekday(airDate) = airShow.day_of_week )
           /\ (airShow.recurrence_type = "WEEKENDS" /\ airDate = Saturday)
                 => airResult = TRUE
           /\ (airShow.recurrence_type = "WEEKENDS" /\ airDate = Wednesday)
                 => airResult = FALSE

\* A WEEKENDS show with no cancellations has been evaluated on the Saturday.
C7_Witness ==
    /\ AirCalled
    /\ airShow.is_recurring
    /\ airShow.recurrence_type = "WEEKENDS"
    /\ airShow.cancelled_instances = << >>
    /\ airDate = Saturday
    /\ airResult = TRUE


\* ------------------------------------------------------------------------
\* Users and content objects of the engagement layer
\* ------------------------------------------------------------------------
Users == 1..NumUsers
ContentTypeIds == 1..NumContentTypes

\* django_content_type ids of shows.Show, posts.Post and events.Event; OtherCT
\* stands for any further model a Like or Comment may point at
ShowCT == 1
PostCT == 2
EventCT == 3
OtherCT == 4

\* NULL in the nullable, unique column User.stacks_address
NullWallet == << "NULL" >>

\* The user with role 'user', who is staff; users 1..NumUsers have role
\* 'creator' and are not staff
PlainUser == NumUsers + 1

\* The registered users of the engagement specifications
InitUsers ==
    { [id |-> u,
       username |-> << "u", Digit(u) >>,
       stacks_address |-> NullWallet,
       role |-> IF u \in Users THEN "creator" ELSE "user",
       is_staff |-> (u = PlainUser)] : u \in Users \cup {PlainUser} }

\* A content object that does not exist (GenericForeignKey resolves to None)
NoObject == [exists |-> FALSE, creator |-> None, author |-> None, organizer |-> None]

\* The content objects: shows carry creator, posts author, events organizer; the
\* objects of OtherCT carry several owner attributes (object 1 all three, object 2
\* author and organizer) or none of them (object 3).
InitContent ==
    ( <<ShowCT, 1>> :> [exists |-> TRUE, creator |-> 1, author |-> None, organizer |-> None] ) @@
    ( <<ShowCT, 2>> :> [exists |-> TRUE, creator |-> 2, author |-> None, organizer |-> None] ) @@
    ( <<PostCT, 1>> :> [exists |-> TRUE, creator |-> None, author |-> 2, organizer |-> None,
                        content |-> "first"] ) @@
    ( <<EventCT, 1>> :> [exists |-> TRUE, creator |-> None, author |-> None, organizer |-> 1] ) @@
    ( <<OtherCT, 1>> :> [exists |-> TRUE, creator |-> 1, author |-> 2, organizer |-> 2] ) @@
    ( <<OtherCT, 2>> :> [exists |-> TRUE, creator |-> None, author |-> 2, organizer |-> 1] ) @@
    ( <<OtherCT, 3>> :> [exists |-> TRUE, creator |-> None, author |-> None, organizer |-> None] )

\* instance.content_object
ContentObject(ct, oid) ==
    IF <<ct, oid>> \in DOMAIN content THEN content[<<ct, oid>>] ELSE NoObject

\* get_content_owner with author looked up before creator
GetContentOwnerAuthorFirst(obj) ==
    IF obj.author # None THEN obj.author
    ELSE IF obj.creator # None THEN obj.creator
    ELSE IF obj.organizer # None THEN obj.organizer
    ELSE None

\* get_content_owner: for attr in ('creator', 'author', 'organizer')
GetContentOwner(obj) ==
    IF obj.creator # None THEN obj.creator
    ELSE IF obj.author # None THEN obj.author
    ELSE IF obj.organizer # None THEN obj.organizer
    ELSE None

\* Notification.objects.create(...): the row appended to the table
NotificationRow(recipient, actor, type, ct, oid) ==
    [recipient |-> recipient, actor |-> actor, notification_type |-> type,
     content_type |-> ct, object_id |-> oid, is_read |-> FALSE]

\* create_like_notification: the rows the post_save receiver of Like inserts
CreateLikeNotification(instance, created) ==
    IF ~created THEN << >>
    ELSE LET owner == GetContentOwner(ContentObject(instance.content_type,
                                                    instance.object_id))
         IN  IF owner = None THEN << >>
             ELSE IF instance.user = owner THEN << >>
             ELSE << NotificationRow(owner, instance.user, "like",
                                     instance.content_type, instance.object_id) >>

\* ------------------------------------------------------------------------
\* LikeViewSet.toggle
\* ------------------------------------------------------------------------
\* lookup that compares object_id with the content type id
LikeMatchesWrongField(table, u, ct, oid) ==
    { l \in table : l.user = u /\ l.content_type = ct /\ l.object_id = ct }

\* rows with the given (user, content_type, object_id): the lookup of
\* get_or_create and of the unique_together index
LikeMatches(table, u, ct, oid) ==
    { l \in table : l.user = u /\ l.content_type = ct /\ l.object_id = oid }

\* like.delete() that removes nothing
LikeDeleteNothing(table, like) == table

\* like.delete()
LikeDelete(table, like) == table \ {like}

\* Like.objects.get_or_create(user, content_type_id, object_id):
\* get, else insert under the unique_together constraint
LikeGetOrCreate(table, u, ct, oid, id) ==
    LET found == LikeMatches(table, u, ct, oid)
        row == [id |-> id, user |-> u, content_type |-> ct, object_id |-> oid]
    IN  IF Cardinality(found) > 1
            THEN [error |-> "MultipleObjectsReturned", created |-> FALSE,
                  like |-> row, table |-> table]
        ELSE IF found # {}
            THEN [error |-> "", created |-> FALSE,
                  like |-> CHOOSE l \in found : TRUE, table |-> table]
        ELSE IF LikeMatches(table, row.user, row.content_type, row.object_id) # {}
            THEN [error |-> "IntegrityError", created |-> FALSE,
                  like |-> row, table |-> table]
        ELSE [error |-> "", created |-> TRUE, like |-> row,
              table |-> table \cup {row}]

Liked(u, ct, oid) ==
    \E l \in likes : l.user = u /\ l.content_type = ct /\ l.object_id = oid

\* The targets toggle requests name: the content objects that have an owner, a
\* post that does not exist, and an object of a model without owner attributes
LikeTargets ==
    { <<ShowCT, 1>>, <<PostCT, 1>>, <<EventCT, 1>>, <<OtherCT, 1>>, <<OtherCT, 2>>,
      <<OtherCT, 3>>, <<PostCT, 2>> }

\* Request bodies that name no target: a missing content_type, a missing
\* object_id, a content type id without a django_content_type row
BadTargets == { <<None, 1>>, <<ShowCT, None>>, <<NumContentTypes + 1, 1>> }

LikeKeys == Users \X LikeTargets

LikeResponse(status) == [op |-> "like_toggle", status |-> status]

\* POST /api/likes/toggle/ by user u with body {content_type: ct, object_id: oid}
LikeToggle(u, ct, oid) ==
    /\ UNCHANGED <<users, nextUserId, content, comments, nextCommentId, follows, nextFollowId>>
    /\ UNCHANGED guestVars
    /\ UNCHANGED airVars
    /\ UNCHANGED procs
    /\ IF ct = None \/ oid = None
         THEN /\ last' = LikeResponse(400)
              /\ UNCHANGED <<likes, nextLikeId, notifications, toggleHist>>
       ELSE IF ct \notin ContentTypeIds
         \* no django_content_type row: the insert violates the foreign key
         THEN /\ last' = LikeResponse(500)
              /\ UNCHANGED <<likes, nextLikeId, notifications, toggleHist>>
       ELSE LET r == LikeGetOrCreate(likes, u, ct, oid, nextLikeId)
                before == IF Liked(u, ct, oid) THEN "liked" ELSE "not_liked"
                key == <<u, <<ct, oid>> >>
            IN  IF r.error # ""
                  THEN /\ last' = LikeResponse(500)
                       /\ UNCHANGED <<likes, nextLikeId, notifications, toggleHist>>
                ELSE IF ~r.created
                  THEN /\ likes' = LikeDelete(r.table, r.like)
                       /\ last' = LikeResponse(200)
                       /\ toggleHist' = [toggleHist EXCEPT ![key] =
                                            [one |-> before, two |-> @.one]]
                       /\ UNCHANGED <<nextLikeId, notifications>>
                ELSE /\ nextLikeId <= MaxLikeId
                     /\ Len(notifications) < MaxNotifications
                     /\ likes' = r.table
                     /\ nextLikeId' = nextLikeId + 1
                     /\ notifications' =
                            notifications \o CreateLikeNotification(r.like, r.created)
                     /\ last' = LikeResponse(201)
                     /\ toggleHist' = [toggleHist EXCEPT ![key] =
                                          [one |-> before, two |-> @.one]]

\* The like user 2 gave show 1 before the behaviour starts
InitLike == [id |-> 1, user |-> 2, content_type |-> ShowCT, object_id |-> 1]

\* The ids of the shows
ShowIds == { k[2] : k \in { t \in DOMAIN InitContent : t[1] = ShowCT } }

InitWorld ==
    /\ users = InitUsers /\ nextUserId = NumUsers + 2
    /\ content = InitContent
    /\ likes = {InitLike} /\ nextLikeId = 2
    /\ comments = {} /\ nextCommentId = 1
    /\ follows = {} /\ nextFollowId = 1
    /\ notifications = CreateLikeNotification(InitLike, TRUE)
    /\ guestRequests = {}
    /\ guests = [s \in ShowIds |-> {}]
    /\ toggleHist = [k \in LikeKeys |-> [one |-> "unknown", two |-> "unknown"]]
    /\ airShow = [is_recurring |-> FALSE, recurrence_type |-> "NULL",
                  day_of_week |-> NoDay, cancelled_instances |-> << >>]
    /\ airDate = NoDate
    /\ airResult = "unset"
    /\ last = NoRequest

InitEngage == InitWorld /\ nextGuestRequestId = 1 /\ procs = NoProcs

NextLike ==
    \E u \in Users, t \in LikeTargets \cup BadTargets : LikeToggle(u, t[1], t[2])

SpecLike == InitEngage /\ [][NextLike]_vars

\* C1: after any sequence of LikeViewSet.toggle calls the Like table holds at
\* most one row per (user, content_type, object_id).
C1_LikeUnique ==
    \A l1, l2 \in likes :
        (l1.user = l2.user /\ l1.content_type = l2.content_type
            /\ l1.object_id = l2.object_id) => l1 = l2

\* A like exists on a target that the same user liked and unliked before.
C1_Witness ==
    \E l \in likes :
        /\ l.id > 1
        /\ toggleHist[<<l.user, <<l.content_type, l.object_id>> >>].two = "liked"
        /\ toggleHist[<<l.user, <<l.content_type, l.object_id>> >>].one = "not_liked"

\* C2: two consecutive toggles by u on t, from either starting state, leave
\* u liking t exactly if u liked t before the first of them.
C2_DoubleToggle ==
    \A k \in LikeKeys :
        toggleHist[k].two # "unknown"
            => (Liked(k[1], k[2][1], k[2][2]) <=> toggleHist[k].two = "liked")

\* Both starting states have been toggled twice: one pair is back at liked,
\* another back at not liked.
C2_Witness ==
    /\ \E k \in LikeKeys :
          toggleHist[k].two = "liked" /\ Liked(k[1], k[2][1], k[2][2])
    /\ \E k \in LikeKeys :
          toggleHist[k].two = "not_liked" /\ ~Liked(k[1], k[2][1], k[2][2])

\* The first non-null of creator, author, organizer, in that order
OwnerInOrder(obj) ==
    LET attrs == << obj.creator, obj.author, obj.organizer >>
        set == { i \in 1..3 : attrs[i] # None }
    IN  IF set = {} THEN None
        ELSE attrs[CHOOSE i \in set : \A j \in set : i <= j]

\* C4: when a new Like is persisted, exactly one 'like' Notification (recipient
\* the owner, i.e. the first non-null of creator, author, organizer; actor the
\* liker; the Like's target) is inserted if an owner exists and is not the
\* liker, and none otherwise; no 'like' Notification has recipient = actor.
C4_LikeNotification ==
    /\ [][ \A l \in likes' \ likes :
             LET owner == OwnerInOrder(ContentObject(l.content_type, l.object_id))
             IN  IF owner # None /\ owner # l.user
                   THEN notifications' =
                          Append(notifications,
                                 [recipient |-> owner, actor |-> l.user,
                                  notification_type |-> "like",
                                  content_type |-> l.content_type,
                                  object_id |-> l.object_id, is_read |-> FALSE])
                   ELSE notifications' = notifications ]_vars
    /\ [](\A i \in 1..Len(notifications) :
             notifications[i].notification_type = "like"
                => notifications[i].recipient # notifications[i].actor)

\* User 1 liked the object whose creator is unset and whose author is user 2 and
\* organizer user 1: the author was notified; and a user likes an own object.
C4_Witness ==
    /\ Liked(1, OtherCT, 2)
    /\ \E i \in 1..Len(notifications) :
          notifications[i] = NotificationRow(2, 1, "like", OtherCT, 2)
    /\ \E l \in likes :
          l.user = GetContentOwner(ContentObject(l.content_type, l.object_id))

\* ------------------------------------------------------------------------
\* CommentViewSet.create
\* ------------------------------------------------------------------------
\* create_comment_notification without the check for replies
CreateCommentNotificationForReplies(instance, created) ==
    IF ~created THEN << >>
    ELSE LET owner == GetContentOwner(ContentObject(instance.content_type,
                                                    instance.object_id))
         IN  IF owner = None THEN << >>
             ELSE IF instance.user = owner THEN << >>
             ELSE << NotificationRow(owner, instance.user, "comment",
                                     instance.content_type, instance.object_id) >>

\* create_comment_notification: the rows the post_save receiver of Comment inserts
CreateCommentNotification(instance, created) ==
    IF ~created THEN << >>
    ELSE LET owner == GetContentOwner(ContentObject(instance.content_type,
                                                    instance.object_id))
         IN  IF owner = None THEN << >>
             ELSE IF instance.user = owner THEN << >>
             ELSE IF instance.parent # None THEN << >>
             ELSE << NotificationRow(owner, instance.user, "comment",
                                     instance.content_type, instance.object_id) >>

\* The targets comment requests name: a show, an object with author and
\* organizer, an object without owner attributes, a post that does not exist
CommentTargets == { <<ShowCT, 1>>, <<OtherCT, 2>>, <<OtherCT, 3>>, <<PostCT, 2>> }

CommentTexts == { "", "hi" }

\* CommentCreateSerializer.is_valid: text is required and not blank, content_type
\* names a django_content_type row, object_id is given, parent is null or a comment
CommentCreateValid(ct, oid, parent, text) ==
    /\ text # ""
    /\ ct \in ContentTypeIds
    /\ oid # None
    /\ parent = None \/ \E c \in comments : c.id = parent

CommentResponse(status) == [op |-> "comment_create", status |-> status]

\* POST /api/comments/ by user u: CommentViewSet.perform_create and the
\* post_save receiver
CommentCreate(u, ct, oid, parent, text) ==
    /\ UNCHANGED <<users, nextUserId, content, likes, nextLikeId, follows, nextFollowId, toggleHist>>
    /\ UNCHANGED guestVars
    /\ UNCHANGED airVars
    /\ UNCHANGED procs
    /\ IF ~CommentCreateValid(ct, oid, parent, text)
         THEN /\ last' = CommentResponse(400)
              /\ UNCHANGED <<comments, nextCommentId, notifications>>
       ELSE LET comment == [id |-> nextCommentId, user |-> u, content_type |-> ct,
                            object_id |-> oid, parent |-> parent, text |-> text]
            IN  /\ nextCommentId <= MaxCommentId
                /\ Len(notifications) < MaxNotifications
                /\ comments' = comments \cup {comment}
                /\ nextCommentId' = nextCommentId + 1
                /\ notifications' =
                       notifications \o CreateCommentNotification(comment, TRUE)
                /\ last' = CommentResponse(201)

NextComment ==
    \E u \in Users, t \in CommentTargets \cup BadTargets,
       parent \in 0..nextCommentId, text \in CommentTexts :
        CommentCreate(u, t[1], t[2], parent, text)

SpecComment == InitEngage /\ [][NextComment]_vars

\* C3: a new Comment inserts exactly one 'comment' Notification (recipient the
\* target's owner, actor the commenter, the comment's target) if it has no parent
\* and the commenter is not the target's owner; it inserts none if it is a reply,
\* if the target has no owner, or if the commenter is the owner.
C3_CommentNotification ==
    [][ \A c \in comments' \ comments :
          LET owner == OwnerInOrder(ContentObject(c.content_type, c.object_id))
          IN  IF c.parent = None /\ owner # None /\ c.user # owner
                THEN notifications' =
                       Append(notifications,
                              [recipient |-> owner, actor |-> c.user,
                               notification_type |-> "comment",
                               content_type |-> c.content_type,
                               object_id |-> c.object_id, is_read |-> FALSE])
                ELSE notifications' = notifications ]_vars

CommentNotifications ==
    { i \in 1..Len(notifications) : notifications[i].notification_type = "comment" }

\* A non-owner commented on show 1 and then replied to that comment: one
\* 'comment' Notification exists.
C3_Witness ==
    /\ \E c1, c2 \in comments :
          /\ c1.parent = None /\ c2.parent = c1.id
          /\ c1.content_type = ShowCT /\ c1.object_id = 1 /\ c1.user = 2
          /\ c2.content_type = ShowCT /\ c2.object_id = 1 /\ c2.user = 2
    /\ Cardinality(CommentNotifications) = 1

\* ------------------------------------------------------------------------
\* FollowViewSet and the Follow admin
\* ------------------------------------------------------------------------
UserIds == { u.id : u \in users }

\* Follow.save without the self-follow check
FollowSaveUnchecked(table, row) ==
    [error |-> "", table |-> table \cup {row}]

\* Follow.save: raises ValueError for follower == following, else inserts
FollowSave(table, row) ==
    IF row.follower = row.following
        THEN [error |-> "ValueError", table |-> table]
        ELSE [error |-> "", table |-> table \cup {row}]

FollowMatches(table, follower, following) ==
    { f \in table : f.follower = follower /\ f.following = following }

FollowResponse(op, u, following, status) ==
    [op |-> op, user |-> u, following_id |-> following, status |-> status]

\* POST /api/follows/toggle/ by user u with body {following_id}
FollowToggle(u, following_id) ==
    /\ UNCHANGED <<users, nextUserId, content, likes, nextLikeId, comments, nextCommentId,
                   toggleHist>>
    /\ UNCHANGED guestVars
    /\ UNCHANGED airVars
    /\ UNCHANGED procs
    /\ IF following_id = None
         THEN /\ last' = FollowResponse("follow_toggle", u, following_id, 400)
              /\ UNCHANGED <<follows, nextFollowId, notifications>>
       ELSE IF following_id = u
         THEN /\ last' = FollowResponse("follow_toggle", u, following_id, 400)
              /\ UNCHANGED <<follows, nextFollowId, notifications>>
       ELSE LET found == FollowMatches(follows, u, following_id)
                row == [id |-> nextFollowId, follower |-> u,
                        following |-> following_id]
                saved == FollowSave(follows, row)
            IN  IF found # {}
                  THEN /\ follows' = follows \ {CHOOSE f \in found : TRUE}
                       /\ last' = FollowResponse("follow_toggle", u, following_id, 200)
                       /\ UNCHANGED <<nextFollowId, notifications>>
                ELSE IF following_id \notin UserIds \/ saved.error # ""
                  \* Follow.save raises: no such user, or a self-follow
                  THEN /\ last' = FollowResponse("follow_toggle", u, following_id, 500)
                       /\ UNCHANGED <<follows, nextFollowId, notifications>>
                ELSE /\ nextFollowId <= MaxFollowId
                     /\ Len(notifications) < MaxNotifications
                     /\ follows' = saved.table
                     /\ nextFollowId' = nextFollowId + 1
                     /\ notifications' =
                            Append(notifications,
                                   NotificationRow(following_id, u, "follow", None, None))
                     /\ last' = FollowResponse("follow_toggle", u, following_id, 201)

\* POST /api/follows/ by user u: FollowSerializer has no writable field, so
\* perform_create saves a Follow without following and Follow.save raises
FollowCreate(u) ==
    /\ last' = FollowResponse("follow_create", u, None, 500)
    /\ UNCHANGED <<users, nextUserId, content, notifications>>
    /\ UNCHANGED engageVars
    /\ UNCHANGED guestVars
    /\ UNCHANGED airVars
    /\ UNCHANGED procs

\* The Follow add form of the admin site: the form validates unique_together,
\* then calls Follow.save
FollowAdminAdd(follower, following) ==
    /\ UNCHANGED <<users, nextUserId, content, likes, nextLikeId, comments, nextCommentId,
                   toggleHist, notifications>>
    /\ UNCHANGED guestVars
    /\ UNCHANGED airVars
    /\ UNCHANGED procs
    /\ LET row == [id |-> nextFollowId, follower |-> follower, following |-> following]
           saved == FollowSave(follows, row)
       IN  IF FollowMatches(follows, follower, following) # {}
             THEN /\ last' = FollowResponse("follow_admin_add", follower, following, 400)
                  /\ UNCHANGED <<follows, nextFollowId>>
           ELSE IF saved.error # ""
             THEN /\ last' = FollowResponse("follow_admin_add", follower, following, 500)
                  /\ UNCHANGED <<follows, nextFollowId>>
           ELSE /\ nextFollowId <= MaxFollowId
                /\ follows' = saved.table
                /\ nextFollowId' = nextFollowId + 1
                /\ last' = FollowResponse("follow_admin_add", follower, following, 200)

NextFollow ==
    \/ \E u \in Users, following_id \in 0..(NumUsers + 2) : FollowToggle(u, following_id)
    \/ \E u \in Users : FollowCreate(u)
    \/ \E f, g \in Users : FollowAdminAdd(f, g)

SpecFollow == InitEngage /\ [][NextFollow]_vars

\* C5: no Follow row has follower = following; FollowViewSet.toggle with the
\* caller's own id returns 400 and creates no row and no Notification, and a
\* save of such a row raises instead of persisting it.
C5_NoSelfFollow ==
    /\ [](\A f \in follows : f.follower # f.following)
    /\ [][ /\ (last'.op = "follow_toggle" /\ last'.following_id = last'.user)
                => (last'.status = 400 /\ UNCHANGED <<follows, notifications>>)
           /\ (last'.op = "follow_admin_add" /\ last'.following_id = last'.user)
                => (last'.status = 500 /\ UNCHANGED <<follows, notifications>>)
         ]_vars

\* A self-follow was just refused by toggle while other follows exist.
C5_Witness ==
    /\ last.op = "follow_toggle"
    /\ last.following_id = last.user
    /\ last.status = 400
    /\ follows # {}

\* ------------------------------------------------------------------------
\* Wallet signup: UserViewSet.complete_setup
\* ------------------------------------------------------------------------
\* Strings are sequences of characters
Repeat(c, n) == [i \in 1..n |-> c]

StartsWith(s, prefix) ==
    Len(s) >= Len(prefix) /\ SubSeq(s, 1, Len(prefix)) = prefix

\* value[:n]
Prefix(s, n) == SubSeq(s, 1, IF Len(s) < n THEN Len(s) ELSE n)

WalletA == << "S", "P" >> \o Repeat("A", 38)
WalletA2 == << "S", "P" >> \o Repeat("A", 37) \o << "Z" >>
WalletB == << "S", "T" >> \o Repeat("B", 38)
WalletShort == << "S", "P", "9" >>
WalletBadPrefix == << "0", "x" >> \o Repeat("A", 38)
WalletBlank == << >>

\* wallet_address values of the requests
Wallets == { WalletA, WalletA2, WalletB, WalletShort, WalletBadPrefix, WalletBlank }

UserPrefix == << "u", "s", "e", "r", "_" >>

\* username values of the requests: absent, 'bob', 'al' (too short), 'a b'
\* (a character the format forbids) and the name generated for WalletA
NoUsername == << >>
RequestUsernames ==
    { NoUsername, << "b", "o", "b" >>, << "a", "l" >>, << "a", " ", "b" >>,
      UserPrefix \o Prefix(WalletA, 8) }

\* role values of the requests; 'admin' is no choice of the field
RequestRoles == { "user", "creator", "admin" }

\* uuid.uuid4().hex[:8]
UuidHex == { Repeat("0", 8), Repeat("f", 8) }

\* [a-zA-Z0-9_-]
UsernameChars ==
    { "a", "b", "c", "d", "e", "f", "g", "h", "i", "j", "k", "l", "m", "n", "o", "p",
      "q", "r", "s", "t", "u", "v", "w", "x", "y", "z",
      "A", "B", "C", "D", "E", "F", "G", "H", "I", "J", "K", "L", "M", "N", "O", "P",
      "Q", "R", "S", "T", "U", "V", "W", "X", "Y", "Z",
      "0", "1", "2", "3", "4", "5", "6", "7", "8", "9", "_", "-" }

\* re.match(r'^[a-zA-Z0-9_-]{3,150}$', value)
UsernameMinLen == 3
UsernameMaxLen == 150
UsernameFormatOk(value) ==
    /\ Len(value) >= UsernameMinLen
    /\ Len(value) <= UsernameMaxLen
    /\ \A i \in 1..Len(value) : value[i] \in UsernameChars

\* a lookup on the username column instead of stacks_address
WalletRegisteredByUsername(table, wallet) ==
    \E u \in table : u.username = wallet

\* User.objects.filter(stacks_address=wallet).exists(), also the lookup of the
\* unique index on stacks_address
WalletRegistered(table, wallet) ==
    \E u \in table : u.stacks_address = wallet

\* User.objects.filter(username=name).exists(), also the lookup of the unique
\* index on username
UsernameTaken(table, name) ==
    \E u \in table : u.username = name

\* CompleteSetupSerializer.validate_wallet_address (the field is required and
\* may not be blank)
ValidateWalletAddress(table, value) ==
    /\ value # WalletBlank
    /\ StartsWith(value, << "S", "P" >>) \/ StartsWith(value, << "S", "T" >>)
    /\ ~WalletRegistered(table, value)

\* CompleteSetupSerializer.validate_username
ValidateUsername(table, value) ==
    value # NoUsername => (~UsernameTaken(table, value) /\ UsernameFormatOk(value))

\* CompleteSetupSerializer.is_valid
CompleteSetupValid(table, wallet, username, role) ==
    /\ ValidateWalletAddress(table, wallet)
    /\ ValidateUsername(table, username)
    /\ role \in { "user", "creator" }

max_retries == 10

\* The username generation loop of complete_setup with the test of exists()
\* inverted
RECURSIVE GenerateUsernameWhileFree(_, _, _, _)
GenerateUsernameWhileFree(table, base, username, counter) ==
    IF counter < max_retries
        THEN IF UsernameTaken(table, username)
                THEN [fallback |-> FALSE, username |-> username, checks |-> counter]
                ELSE GenerateUsernameWhileFree(table, base,
                                      base \o << "_", Digit(counter) >>, counter + 1)
        ELSE [fallback |-> TRUE, username |-> username, checks |-> counter - 1]

\* The username generation loop of complete_setup: the name it leaves the loop
\* with, fallback when the loop runs out of retries, and the number of exists()
\* queries it made
RECURSIVE GenerateUsername(_, _, _, _)
GenerateUsername(table, base, username, counter) ==
    IF counter < max_retries
        THEN IF ~UsernameTaken(table, username)
                THEN [fallback |-> FALSE, username |-> username, checks |-> counter]
                ELSE GenerateUsername(table, base,
                                      base \o << "_", Digit(counter) >>, counter + 1)
        ELSE [fallback |-> TRUE, username |-> username, checks |-> counter - 1]

\* User.objects.create on a table without unique indexes
UserCreateUnchecked(table, row) ==
    [error |-> "", table |-> table \cup {row}]

\* User.objects.create inside transaction.atomic(): IntegrityError when the
\* username or the wallet address is already stored, and then no row
UserCreate(table, row) ==
    IF WalletRegistered(table, row.stacks_address) \/ UsernameTaken(table, row.username)
        THEN [error |-> "IntegrityError", table |-> table]
        ELSE [error |-> "", table |-> table \cup {row}]

SetupResponse(wallet, status) ==
    [op |-> "complete_setup", wallet_address |-> wallet, status |-> status]

\* POST /api/users/complete-setup/
CompleteSetup(wallet, username, role, hex) ==
    /\ UNCHANGED <<content, notifications>>
    /\ UNCHANGED engageVars
    /\ UNCHANGED guestVars
    /\ UNCHANGED airVars
    /\ UNCHANGED procs
    /\ IF ~CompleteSetupValid(users, wallet, username, role)
         THEN /\ last' = SetupResponse(wallet, 400)
              /\ UNCHANGED <<users, nextUserId>>
       ELSE IF WalletRegistered(users, wallet)
         THEN /\ last' = SetupResponse(wallet, 400)
              /\ UNCHANGED <<users, nextUserId>>
       ELSE LET gen == GenerateUsername(users, UserPrefix \o Prefix(wallet, 8),
                                        UserPrefix \o Prefix(wallet, 8), 1)
                name == IF username # NoUsername THEN username
                        ELSE IF gen.fallback THEN UserPrefix \o hex
                        ELSE gen.username
                row == [id |-> nextUserId, username |-> name,
                        stacks_address |-> wallet, role |-> role,
                        is_staff |-> FALSE]
                made == UserCreate(users, row)
            IN  IF made.error # ""
                  THEN /\ last' = SetupResponse(wallet, 400)
                       /\ UNCHANGED <<users, nextUserId>>
                  ELSE /\ Cardinality({ u \in users : u.stacks_address # NullWallet })
                            < MaxUserId
                       /\ users' = made.table
                       /\ nextUserId' = nextUserId + 1
                       /\ last' = SetupResponse(wallet, 201)

InitSetup ==
    /\ IdleTables
    /\ procs = NoProcs
    /\ airShow = [is_recurring |-> FALSE, recurrence_type |-> "NULL",
                  day_of_week |-> NoDay, cancelled_instances |-> << >>]
    /\ airDate = NoDate
    /\ airResult = "unset"
    /\ last = NoRequest

NextSetup ==
    \E wallet \in Wallets, username \in RequestUsernames, role \in RequestRoles,
       hex \in UuidHex :
        CompleteSetup(wallet, username, role, hex)

SpecSetup == InitSetup /\ [][NextSetup]_vars

\* C8: complete_setup with a wallet address that already belongs to a user
\* returns 400, creates no user and changes no user; a call that returns 201
\* created exactly the user with that address, so a second call with the same
\* address returns 400.
C8_DuplicateWallet ==
    [][ last'.op = "complete_setup" =>
          /\ (\E u \in users : u.stacks_address = last'.wallet_address)
                => (last'.status = 400 /\ users' = users)
          /\ last'.status = 201
                => \E u \in users' :
                      /\ u \notin users
                      /\ u.stacks_address = last'.wallet_address
                      /\ users' = users \cup {u}
          /\ last'.status # 201 => users' = users ]_vars

\* The second complete_setup with WalletA was just refused; its user exists.
C8_Witness ==
    /\ last.op = "complete_setup"
    /\ last.wallet_address = WalletA
    /\ last.status = 400
    /\ Cardinality({ u \in users : u.stacks_address = WalletA }) = 1

\* ------------------------------------------------------------------------
\* Guest-request workflow: GuestRequestViewSet
\* ------------------------------------------------------------------------
UserById(id) == CHOOSE u \in users : u.id = id

\* guest_request.show.creator
ShowCreator(show_id) == ContentObject(ShowCT, show_id).creator

\* The fields and attribute names Notification(...) accepts as keyword arguments
NotificationKwargs ==
    { "id", "pk", "recipient", "recipient_id", "actor", "actor_id", "notification_type",
      "content_type", "content_type_id", "object_id", "content_object", "is_read",
      "created_at" }

\* recipient and actor declared with null=True
RequiredFieldsNullable(row) == TRUE

\* recipient and actor are foreign keys without null=True
RequiredFieldsGiven(row) == row.recipient # None /\ row.actor # None

\* Notification.objects.create(**kwargs): TypeError for a keyword that is no
\* field, IntegrityError for a missing recipient or actor and for a
\* content_type_id without a django_content_type row
NotificationCreate(table, kwargs, row) ==
    IF ~(kwargs \subseteq NotificationKwargs)
        THEN [error |-> "TypeError", table |-> table]
    ELSE IF ~RequiredFieldsGiven(row)
        THEN [error |-> "IntegrityError", table |-> table]
    ELSE IF row.content_type # None /\ row.content_type \notin ContentTypeIds
        THEN [error |-> "IntegrityError", table |-> table]
    ELSE [error |-> "", table |-> Append(table, row)]

GuestRequestById(pk) == { r \in guestRequests : r.id = pk }

\* the ownership check of accept and decline, also passed by the requester
IsShowCreatorOrRequester(guest_request, user) ==
    ShowCreator(guest_request.show) = user \/ guest_request.requester = user

\* guest_request.show.creator == request.user
IsShowCreator(guest_request, user) ==
    ShowCreator(guest_request.show) = user

\* guest_request.status = value; guest_request.save()
SetStatus(table, guest_request, value) ==
    (table \ {guest_request}) \cup { [guest_request EXCEPT !.status = value] }

\* the duplicate check of create_request, looking at pending requests only
GuestRequestExistsPendingOnly(show_id, u) ==
    \E r \in guestRequests :
        r.show = show_id /\ r.requester = u /\ r.status = "pending"

\* GuestRequest.objects.filter(show=show, requester=request.user).exists()
GuestRequestExists(show_id, u) ==
    \E r \in guestRequests : r.show = show_id /\ r.requester = u

GuestResponse(op, u, pk, status) ==
    [op |-> op, user |-> u, pk |-> pk, status |-> status]

\* POST /api/shows/guest-requests/create_request/ by user u with body {show_id}
GuestCreateRequest(u, show_id) ==
    /\ UNCHANGED <<users, nextUserId, content, guests>>
    /\ UNCHANGED engageVars
    /\ UNCHANGED airVars
    /\ UNCHANGED procs
    /\ IF ~ContentObject(ShowCT, show_id).exists
         \* GuestRequestCreateSerializer.validate_show_id
         THEN /\ last' = GuestResponse("guest_create_request", u, show_id, 400)
              /\ UNCHANGED <<guestRequests, nextGuestRequestId, notifications>>
       ELSE IF UserById(u).role # "creator"
         THEN /\ last' = GuestResponse("guest_create_request", u, show_id, 403)
              /\ UNCHANGED <<guestRequests, nextGuestRequestId, notifications>>
       ELSE IF ShowCreator(show_id) = u
         THEN /\ last' = GuestResponse("guest_create_request", u, show_id, 400)
              /\ UNCHANGED <<guestRequests, nextGuestRequestId, notifications>>
       ELSE IF GuestRequestExists(show_id, u)
         THEN /\ last' = GuestResponse("guest_create_request", u, show_id, 400)
              /\ UNCHANGED <<guestRequests, nextGuestRequestId, notifications>>
       ELSE LET guest_request == [id |-> nextGuestRequestId, show |-> show_id,
                                  requester |-> u, status |-> "pending"]
                made == NotificationCreate(
                            notifications,
                            { "recipient", "message", "actor", "notification_type",
                              "content_type_id", "object_id" },
                            NotificationRow(ShowCreator(show_id), u, "guest_request",
                                            guest_request.id, show_id))
            IN  /\ Cardinality(guestRequests) < MaxGuestRequests
                /\ Len(notifications) < MaxNotifications
                /\ guestRequests' = guestRequests \cup {guest_request}
                /\ nextGuestRequestId' = nextGuestRequestId + 1
                /\ notifications' = made.table
                /\ last' = GuestResponse("guest_create_request", u, show_id,
                                         IF made.error = "" THEN 201 ELSE 500)

\* POST /api/shows/guest-requests/{pk}/accept/ by user u
GuestAccept(u, pk) ==
    /\ UNCHANGED <<users, nextUserId, content, nextGuestRequestId>>
    /\ UNCHANGED engageVars
    /\ UNCHANGED airVars
    /\ UNCHANGED procs
    /\ IF GuestRequestById(pk) = {}
         THEN /\ last' = GuestResponse("guest_accept", u, pk, 404)
              /\ UNCHANGED <<guestRequests, guests, notifications>>
       ELSE LET guest_request == CHOOSE r \in GuestRequestById(pk) : TRUE
                made == NotificationCreate(
                            notifications,
                            { "recipient", "actor", "notification_type",
                              "content_type_id", "object_id" },
                            NotificationRow(guest_request.requester, u, "guest_accepted",
                                            guest_request.id, guest_request.show))
            IN  IF ~IsShowCreator(guest_request, u)
                  THEN /\ last' = GuestResponse("guest_accept", u, pk, 403)
                       /\ UNCHANGED <<guestRequests, guests, notifications>>
                  ELSE /\ Len(notifications) < MaxNotifications
                       /\ guestRequests' = SetStatus(guestRequests, guest_request, "accepted")
                       /\ guests' = [guests EXCEPT ![guest_request.show] =
                                        @ \cup {guest_request.requester}]
                       /\ notifications' = made.table
                       /\ last' = GuestResponse("guest_accept", u, pk,
                                                IF made.error = "" THEN 200 ELSE 500)

\* POST /api/shows/guest-requests/{pk}/decline/ by user u
GuestDecline(u, pk) ==
    /\ UNCHANGED <<users, nextUserId, content, nextGuestRequestId, guests>>
    /\ UNCHANGED engageVars
    /\ UNCHANGED airVars
    /\ UNCHANGED procs
    /\ IF GuestRequestById(pk) = {}
         THEN /\ last' = GuestResponse("guest_decline", u, pk, 404)
              /\ UNCHANGED <<guestRequests, notifications>>
       ELSE LET guest_request == CHOOSE r \in GuestRequestById(pk) : TRUE
                made == NotificationCreate(
                            notifications,
                            { "recipient", "actor", "notification_type",
                              "content_type_id", "object_id" },
                            NotificationRow(guest_request.requester, u, "guest_declined",
                                            guest_request.id, guest_request.show))
            IN  IF ~IsShowCreator(guest_request, u)
                  THEN /\ last' = GuestResponse("guest_decline", u, pk, 403)
                       /\ UNCHANGED <<guestRequests, notifications>>
                  ELSE /\ Len(notifications) < MaxNotifications
                       /\ guestRequests' = SetStatus(guestRequests, guest_request, "declined")
                       /\ notifications' = made.table
                       /\ last' = GuestResponse("guest_decline", u, pk,
                                                IF made.error = "" THEN 200 ELSE 500)

\* The GuestRequest ids start below or above the number of django_content_type
\* rows (earlier rows of the table may have been deleted)
InitGuest ==
    InitWorld /\ nextGuestRequestId \in { 1, NumContentTypes + 1 } /\ procs = NoProcs

Requesters == Users \cup {PlainUser}

\* The pk values of the requests: the stored requests and one that is not stored
GuestRequestPks == { r.id : r \in guestRequests } \cup { nextGuestRequestId }

NextGuest ==
    \/ \E u \in Requesters, show_id \in ShowIds \cup {None} : GuestCreateRequest(u, show_id)
    \/ \E u \in Requesters, pk \in GuestRequestPks : GuestAccept(u, pk)
    \/ \E u \in Requesters, pk \in GuestRequestPks : GuestDecline(u, pk)

SpecGuest == InitGuest /\ [][NextGuest]_vars

\* C9: a GuestRequest starts pending and its status only moves pending ->
\* accepted or pending -> declined; an accepted or declined request never
\* changes status again.
C9_TerminalStatus ==
    /\ [][ \A r2 \in guestRequests' :
             IF \E r \in guestRequests : r.id = r2.id
               THEN \A r \in guestRequests :
                      (r.id = r2.id /\ r.status # r2.status) => r.status = "pending"
               ELSE r2.status = "pending" ]_vars

\* C10: an accept or decline call by a user who is not the creator of the
\* request's show returns 403 and leaves the request's status, the show's guest
\* list and the Notification table unchanged.
C10_OnlyCreatorDecides ==
    [][ ( /\ last'.op \in { "guest_accept", "guest_decline" }
          /\ \E r \in guestRequests :
                r.id = last'.pk /\ ShowCreator(r.show) # last'.user )
          => ( /\ last'.status = 403
               /\ UNCHANGED <<guestRequests, guests, notifications>> ) ]_vars

\* The requester just tried to accept the own pending request and got 403.
C10_Witness ==
    /\ last.op = "guest_accept"
    /\ last.status = 403
    /\ \E r \in guestRequests :
          r.id = last.pk /\ r.requester = last.user /\ r.status = "pending"

\* C11: an accept call by the show's creator sets the request's status to
\* accepted, adds the requester to the show's guest list and inserts exactly one
\* Notification of type guest_accepted with recipient the requester and actor
\* the show's creator.
C11_AcceptEffects ==
    [][ \A r \in guestRequests :
          ( /\ last'.op = "guest_accept"
            /\ r.id = last'.pk
            /\ ShowCreator(r.show) = last'.user )
          => ( /\ [r EXCEPT !.status = "accepted"] \in guestRequests'
               /\ r.requester \in guests'[r.show]
               /\ Len(notifications') = Len(notifications) + 1
               /\ SubSeq(notifications', 1, Len(notifications)) = notifications
               /\ LET n == notifications'[Len(notifications')]
                  IN  /\ n.notification_type = "guest_accepted"
                      /\ n.recipient = r.requester
                      /\ n.actor = ShowCreator(r.show) ) ]_vars

\* C12: after any sequence of create_request calls, each run to completion, at
\* most one GuestRequest exists per (show, requester) pair; a create_request by
\* a requester who already has a request for that show, in any status, returns
\* 400 and creates no row.
C12_OneRequestPerPair ==
    /\ [](\A r1, r2 \in guestRequests :
            (r1.show = r2.show /\ r1.requester = r2.requester) => r1 = r2)
    /\ [][ ( /\ last'.op = "guest_create_request"
             /\ \E r \in guestRequests :
                   r.show = last'.pk /\ r.requester = last'.user )
           => ( /\ last'.status = 400
                /\ guestRequests' = guestRequests ) ]_vars

\* A requester whose request was already accepted asked again and got 400.
C12_Witness ==
    /\ last.op = "guest_create_request"
    /\ last.status = 400
    /\ \E r \in guestRequests :
          r.show = last.pk /\ r.requester = last.user /\ r.status = "accepted"

\* ------------------------------------------------------------------------
\* Deleting shows, posts and events: Model.delete() and its cascade
\* ------------------------------------------------------------------------
\* a model without GenericRelation fields: nothing is collected through them
NoGenericRelation(table, ct, oid) == {}

\* GenericRelation.bulk_related_objects: the rows of a Like or Comment table
\* whose (content_type, object_id) is the deleted object
GenericRelated(table, ct, oid) ==
    { row \in table : row.content_type = ct /\ row.object_id = oid }

\* Comment.parent is on_delete=CASCADE: the replies of collected comments are
\* collected too, whatever their target
RECURSIVE CollectReplies(_, _)
CollectReplies(table, collected) ==
    LET more == { c \in table : \E p \in collected : c.parent = p.id }
    IN  IF more \subseteq collected THEN collected
        ELSE CollectReplies(table, collected \cup more)

\* instance.delete() on a Show, Post or Event: what is left of the tables
ModelDelete(ct, oid) ==
    [content |-> [content EXCEPT ![<<ct, oid>>] = NoObject],
     likes |-> likes \ GenericRelated(likes, ct, oid),
     comments |-> comments \ CollectReplies(comments, GenericRelated(comments, ct, oid)),
     guestRequests |-> IF ct = ShowCT THEN { r \in guestRequests : r.show # oid }
                       ELSE guestRequests,
     guests |-> IF ct = ShowCT THEN [guests EXCEPT ![oid] = {}] ELSE guests]

DestroyResponse(op, u, ct, pk, status) ==
    [op |-> op, user |-> u, content_type |-> ct, pk |-> pk, status |-> status]

\* The deletion part of a destroy handler, after its checks passed
PerformDestroy(op, u, ct, pk) ==
    LET left == ModelDelete(ct, pk)
    IN  /\ content' = left.content
        /\ likes' = left.likes
        /\ comments' = left.comments
        /\ guestRequests' = left.guestRequests
        /\ guests' = left.guests
        /\ last' = DestroyResponse(op, u, ct, pk, 204)

DestroyRefused(op, u, ct, pk, status) ==
    /\ last' = DestroyResponse(op, u, ct, pk, status)
    /\ UNCHANGED <<content, likes, comments, guestRequests, guests>>

\* DELETE /api/posts/{pk}/ by user u: PostViewSet.destroy
PostDestroy(u, pk) ==
    /\ UNCHANGED <<users, nextUserId, nextLikeId, nextCommentId, follows, nextFollowId,
                   toggleHist, notifications, nextGuestRequestId>>
    /\ UNCHANGED airVars
    /\ UNCHANGED procs
    /\ IF ~ContentObject(PostCT, pk).exists
         THEN DestroyRefused("post_destroy", u, PostCT, pk, 404)
       ELSE IF ContentObject(PostCT, pk).author # u /\ ~UserById(u).is_staff
         THEN DestroyRefused("post_destroy", u, PostCT, pk, 403)
       ELSE PerformDestroy("post_destroy", u, PostCT, pk)

\* DELETE /api/shows/{slug}/ by user u: ShowViewSet.destroy behind
\* IsCreatorOrReadOnly
ShowDestroy(u, pk) ==
    /\ UNCHANGED <<users, nextUserId, nextLikeId, nextCommentId, follows, nextFollowId,
                   toggleHist, notifications, nextGuestRequestId>>
    /\ UNCHANGED airVars
    /\ UNCHANGED procs
    /\ IF ~ContentObject(ShowCT, pk).exists
         THEN DestroyRefused("show_destroy", u, ShowCT, pk, 404)
       ELSE IF ContentObject(ShowCT, pk).creator # u
         THEN DestroyRefused("show_destroy", u, ShowCT, pk, 403)
       ELSE PerformDestroy("show_destroy", u, ShowCT, pk)

\* event.delete() on an existing Event
EventDelete(pk) ==
    /\ UNCHANGED <<users, nextUserId, nextLikeId, nextCommentId, follows, nextFollowId,
                   toggleHist, notifications, nextGuestRequestId>>
    /\ UNCHANGED airVars
    /\ UNCHANGED procs
    /\ ContentObject(EventCT, pk).exists
    /\ PerformDestroy("event_delete", None, EventCT, pk)

\* The entities the deletion specification likes, comments on and deletes
DeleteTargets == { <<ShowCT, 1>>, <<PostCT, 1>>, <<EventCT, 1>> }

\* The user who likes and the user who comments in the deletion specification
Liker == 2
Commenter == 1

\* The entities are liked and commented on while they exist
NextDelete ==
    \/ \E t \in DeleteTargets :
          ContentObject(t[1], t[2]).exists /\ LikeToggle(Liker, t[1], t[2])
    \/ \E t \in DeleteTargets, parent \in 0..(nextCommentId - 1) :
          /\ ContentObject(t[1], t[2]).exists
          /\ CommentCreate(Commenter, t[1], t[2], parent, "hi")
    \/ \E u \in { Liker, Commenter, PlainUser } : PostDestroy(u, 1)
    \/ \E u \in { Liker, Commenter } : ShowDestroy(u, 1)
    \/ EventDelete(1)

SpecDelete == InitEngage /\ [][NextDelete]_vars

\* C13: deleting a Show, Post or Event also deletes every Like and every
\* Comment whose (content_type, object_id) refers to it: after the deletion no
\* Like or Comment row references the deleted entity.
C13_CascadeDelete ==
    [][ \A t \in DeleteTargets :
          (ContentObject(t[1], t[2]).exists /\ ~ContentObject(t[1], t[2])'.exists)
          => ( /\ \A l \in likes' : <<l.content_type, l.object_id>> # t
               /\ \A c \in comments' : <<c.content_type, c.object_id>> # t ) ]_vars

\* Show 1 was just deleted while it had a like and a comment; both are gone,
\* and a like on another entity is still there.
C13_Witness ==
    /\ last.op = "show_destroy" /\ last.status = 204
    /\ ContentObject(PostCT, 1).exists /\ ContentObject(EventCT, 1).exists
    /\ toggleHist[<<2, <<ShowCT, 1>> >>].one = "unknown"
    /\ nextCommentId > 1
    /\ comments = {}
    /\ \A l \in likes : l.content_type # ShowCT
    /\ likes # {}

\* ------------------------------------------------------------------------
\* Concurrent LikeViewSet.toggle calls: get_or_create step by step
\* ------------------------------------------------------------------------
Procs == 1..NumProcs

\* The (user, target) pairs of the concurrent toggle calls: two pairs without
\* a Like and the pair of the stored Like
RaceRequests ==
    { <<1, <<ShowCT, 1>> >>, <<1, <<PostCT, 1>> >>, <<2, <<ShowCT, 1>> >>,
      <<2, <<EventCT, 1>> >> }

\* get_or_create re-raising the IntegrityError without reading again
NoGetAfterIntegrityError(table, u, ct, oid) == {}

\* get_or_create, except IntegrityError: return self.get(**kwargs), False
GetAfterIntegrityError(table, u, ct, oid) == LikeMatches(table, u, ct, oid)

InitLikeRace ==
    /\ InitWorld
    /\ nextGuestRequestId = 1
    /\ procs \in [ Procs -> { [pc |-> "get", user |-> r[1], target |-> r[2],
                               like |-> None, conflict |-> FALSE, present |-> FALSE,
                               status |-> 0] : r \in RaceRequests } ]

RaceIdle ==
    /\ UNCHANGED <<users, nextUserId, content, comments, nextCommentId, follows,
                   nextFollowId, toggleHist>>
    /\ UNCHANGED guestVars
    /\ UNCHANGED airVars

\* the first self.get(**kwargs) of get_or_create
ToggleGet(p) ==
    LET me == procs[p]
        found == LikeMatches(likes, me.user, me.target[1], me.target[2])
    IN  /\ me.pc = "get"
        /\ procs' = [procs EXCEPT ![p] =
                        IF found = {} THEN [me EXCEPT !.pc = "create"]
                        ELSE [me EXCEPT !.pc = "delete",
                                        !.like = (CHOOSE l \in found : TRUE).id]]
        /\ UNCHANGED <<likes, nextLikeId, notifications, last>>
        /\ RaceIdle

\* self.create(**params) under the unique_together index, with the post_save
\* receiver; a created Like ends the call with 201
ToggleCreate(p) ==
    LET me == procs[p]
        row == [id |-> nextLikeId, user |-> me.user, content_type |-> me.target[1],
                object_id |-> me.target[2]]
    IN  /\ me.pc = "create"
        /\ RaceIdle
        /\ IF LikeMatches(likes, me.user, me.target[1], me.target[2]) # {}
             THEN /\ procs' = [procs EXCEPT ![p] = [me EXCEPT !.pc = "reget",
                                                             !.conflict = TRUE]]
                  /\ UNCHANGED <<likes, nextLikeId, notifications, last>>
             ELSE /\ nextLikeId <= MaxLikeId
                  /\ Len(notifications) < MaxNotifications
                  /\ likes' = likes \cup {row}
                  /\ nextLikeId' = nextLikeId + 1
                  /\ notifications' = notifications \o CreateLikeNotification(row, TRUE)
                  /\ procs' = [procs EXCEPT ![p] = [me EXCEPT !.pc = "done",
                                                             !.like = row.id,
                                                             !.status = 201]]
                  /\ last' = LikeResponse(201)

\* the handler of IntegrityError in get_or_create: read again, raise if the
\* row is not there
ToggleGetAgain(p) ==
    LET me == procs[p]
        found == GetAfterIntegrityError(likes, me.user, me.target[1], me.target[2])
        there == LikeMatches(likes, me.user, me.target[1], me.target[2]) # {}
    IN  /\ me.pc = "reget"
        /\ RaceIdle
        /\ UNCHANGED <<likes, nextLikeId, notifications>>
        /\ IF found = {}
             THEN /\ procs' = [procs EXCEPT ![p] = [me EXCEPT !.pc = "done",
                                                             !.present = there,
                                                             !.status = 500]]
                  /\ last' = LikeResponse(500)
             ELSE /\ procs' = [procs EXCEPT ![p] =
                                  [me EXCEPT !.pc = "delete", !.present = there,
                                             !.like = (CHOOSE l \in found : TRUE).id]]
                  /\ UNCHANGED last

\* if not created: like.delete(); 'unliked'
ToggleDelete(p) ==
    LET me == procs[p]
    IN  /\ me.pc = "delete"
        /\ RaceIdle
        /\ likes' = { l \in likes : l.id # me.like }
        /\ procs' = [procs EXCEPT ![p] = [me EXCEPT !.pc = "done", !.status = 200]]
        /\ last' = LikeResponse(200)
        /\ UNCHANGED <<nextLikeId, notifications>>

NextLikeRace ==
    \E p \in Procs :
        \/ ToggleGet(p)
        \/ ToggleCreate(p)
        \/ ToggleGetAgain(p)
        \/ ToggleDelete(p)

SpecLikeRace == InitLikeRace /\ [][NextLikeRace]_vars

\* C14 as stated: a toggle call whose insert hits the unique constraint,
\* because a concurrent call for the same pair inserted first, ends in a
\* database integrity error and not in a 'liked' or 'unliked' response.
C14_RaceIntegrityError ==
    \A p \in Procs :
        (procs[p].pc = "done" /\ procs[p].conflict) => procs[p].status = 500

\* C14, amended: get_or_create catches the integrity error of the second insert
\* and reads the row again; the call deletes the row and answers 'unliked'
\* (200) when the row is still there, and ends in the integrity error only
\* when the row is gone by then. The table never holds two rows for a pair.
C14_RaceHandled ==
    /\ \A p \in Procs :
          (procs[p].pc = "done" /\ procs[p].conflict)
              => procs[p].status = (IF procs[p].present THEN 200 ELSE 500)
    /\ C1_LikeUnique

\* Two calls for the same pair both passed the existence check: one answered
\* 'liked', the other hit the constraint and answered 'unliked', and no Like
\* is left for the pair.
C14_Witness ==
    \E p, q \in Procs :
        /\ procs[p].pc = "done" /\ procs[q].pc = "done"
        /\ procs[p].user = procs[q].user /\ procs[p].target = procs[q].target
        /\ procs[p].status = 201 /\ ~procs[p].conflict
        /\ procs[q].status = 200 /\ procs[q].conflict
        /\ LikeMatches(likes, procs[p].user, procs[p].target[1], procs[p].target[2]) = {}

\* ------------------------------------------------------------------------
\* NotificationViewSet: the notifications endpoints
\* ------------------------------------------------------------------------
\* The values the notification requests send for notification_type
RequestTypes == { "like", "nonsense" }

NOTIFICATION_TYPES ==
    { "follow", "like", "comment", "show_reminder", "show_cancelled", "guest_request",
      "guest_accepted", "guest_declined", "co_host_added" }

NotificationResponse(op, u, status) == [op |-> op, status |-> status]

NotificationIdle ==
    /\ UNCHANGED <<users, nextUserId, content>>
    /\ UNCHANGED engageVars
    /\ UNCHANGED guestVars
    /\ UNCHANGED airVars
    /\ UNCHANGED procs

\* get_queryset: the positions of the caller's notifications
OwnNotifications(u) ==
    { i \in 1..Len(notifications) : notifications[i].recipient = u }

\* a row removed from the table
RemoveAt(table, i) ==
    SubSeq(table, 1, i - 1) \o SubSeq(table, i + 1, Len(table))

\* GET /api/notifications/ by user u
NotificationList(u) ==
    /\ last' = NotificationResponse("notification_list", u, 200)
    /\ UNCHANGED notifications
    /\ NotificationIdle

\* POST /api/notifications/ by user u: recipient and actor are read-only
\* fields of NotificationSerializer, so the row is saved without them
NotificationViewCreate(u, type, ct, oid) ==
    /\ NotificationIdle
    /\ IF type \notin NOTIFICATION_TYPES \/ (ct # None /\ ct \notin ContentTypeIds)
         THEN /\ last' = NotificationResponse("notification_create", u, 400)
              /\ UNCHANGED notifications
       ELSE LET made == NotificationCreate(
                            notifications,
                            { "notification_type", "content_type", "object_id", "is_read" },
                            NotificationRow(None, None, type, ct, oid))
            IN  /\ notifications' = made.table
                /\ last' = NotificationResponse("notification_create", u,
                                                IF made.error = "" THEN 201 ELSE 500)

\* PUT or PATCH /api/notifications/{i}/ by user u
NotificationUpdate(u, i, type, is_read) ==
    /\ NotificationIdle
    /\ IF i \notin OwnNotifications(u)
         THEN /\ last' = NotificationResponse("notification_update", u, 404)
              /\ UNCHANGED notifications
       ELSE IF type \notin NOTIFICATION_TYPES
         THEN /\ last' = NotificationResponse("notification_update", u, 400)
              /\ UNCHANGED notifications
       ELSE /\ notifications' = [notifications EXCEPT ![i].notification_type = type,
                                                       ![i].is_read = is_read]
            /\ last' = NotificationResponse("notification_update", u, 200)

\* DELETE /api/notifications/{i}/ by user u
NotificationDestroy(u, i) ==
    /\ NotificationIdle
    /\ IF i \notin OwnNotifications(u)
         THEN /\ last' = NotificationResponse("notification_delete", u, 404)
              /\ UNCHANGED notifications
       ELSE /\ notifications' = RemoveAt(notifications, i)
            /\ last' = NotificationResponse("notification_delete", u, 204)

\* POST /api/notifications/{i}/mark_read/ by user u
MarkRead(u, i) ==
    /\ NotificationIdle
    /\ IF i \notin OwnNotifications(u)
         THEN /\ last' = NotificationResponse("mark_read", u, 404)
              /\ UNCHANGED notifications
       ELSE /\ notifications' = [notifications EXCEPT ![i].is_read = TRUE]
            /\ last' = NotificationResponse("mark_read", u, 200)

\* POST /api/notifications/mark_all_read/ by user u
MarkAllRead(u) ==
    /\ NotificationIdle
    /\ notifications' =
          [i \in 1..Len(notifications) |->
              IF i \in OwnNotifications(u) THEN [notifications[i] EXCEPT !.is_read = TRUE]
              ELSE notifications[i]]
    /\ last' = NotificationResponse("mark_all_read", u, 200)

\* The operations of the notifications endpoints
NotificationOps ==
    { "notification_list", "notification_create", "notification_update",
      "notification_delete", "mark_read", "mark_all_read" }

\* The writes that insert notifications as a side effect
NotifyingOps ==
    { "like_toggle", "comment_create", "follow_toggle", "guest_create_request",
      "guest_accept", "guest_decline" }

\* The user who calls the notifications endpoints: the recipient of the like,
\* follow and guest_accepted notifications, not of the comment notification
Reader == 2

\* The rows the detail requests name: the oldest and the newest notification
NotificationPks == { i \in 1..Len(notifications) : i = 1 \/ i = Len(notifications) }

\* Each of the like, comment and follow writes is requested once
NextNotify ==
    \/ nextLikeId = 2 /\ LikeToggle(1, PostCT, 1)
    \/ nextCommentId = 1 /\ CommentCreate(2, ShowCT, 1, None, "hi")
    \/ nextFollowId = 1 /\ FollowToggle(1, 2)
    \/ GuestCreateRequest(2, 1)
    \/ \E pk \in GuestRequestPks : GuestAccept(1, pk)
    \/ \E pk \in GuestRequestPks : GuestDecline(1, pk)
    \/ NotificationList(Reader)
    \/ \E type \in RequestTypes, ct \in {None, ShowCT} :
          NotificationViewCreate(Reader, type, ct, 1)
    \/ \E i \in NotificationPks, is_read \in BOOLEAN :
          \E type \in { notifications[i].notification_type, "nonsense" } :
              NotificationUpdate(Reader, i, type, is_read)
    \/ \E i \in NotificationPks : NotificationDestroy(Reader, i)
    \/ \E i \in NotificationPks : MarkRead(Reader, i)
    \/ MarkAllRead(Reader)

SpecNotify == InitEngage /\ [][NextNotify]_vars

\* C15: every Notification row is inserted as a side effect of another write
\* (like, top-level comment, follow, guest request create, accept or decline);
\* no request to the notifications endpoints (list, create, update, delete,
\* mark_read, mark_all_read) inserts a Notification row.
C15_NotificationsOnlySideEffects ==
    [][ /\ Len(notifications') > Len(notifications) => last'.op \in NotifyingOps
        /\ last'.op \in NotificationOps => Len(notifications') <= Len(notifications) ]_vars

\* A POST to the notifications endpoint passed validation and inserted
\* nothing, while the table holds rows inserted by a like and by a follow.
C15_Witness ==
    /\ last.op = "notification_create" /\ last.status = 500
    /\ \E i, j \in 1..Len(notifications) :
          /\ notifications[i].notification_type = "like"
          /\ notifications[i].actor = 1
          /\ notifications[j].notification_type = "follow"

\* ------------------------------------------------------------------------
\* Profiles and posts: UserViewSet.update, UserViewSet destroy, PostViewSet
\* ------------------------------------------------------------------------
\* The role value of a request without the role field
NoRole == "absent"

ROLE_CHOICES == { "user", "creator" }

\* the ownership check of UserViewSet.update, passed by every user
IsAnyProfile(instance, u) == TRUE

\* UserViewSet.update: instance.id == request.user.id
IsOwnProfile(instance, u) == instance.id = u

\* validate_role without the check for downgrades
ValidateRoleAny(instance, value) == TRUE

\* UserUpdateSerializer.validate_role
ValidateRole(instance, value) ==
    ~(instance.role = "creator" /\ value = "user")

\* UserUpdateSerializer.validate_username
ValidateUsernameOfUpdate(instance, value) ==
    ~\E u \in users : u.id # instance.id /\ u.username = value

\* UserUpdateSerializer.is_valid: username is required unless the update is
\* partial, role must be one of ROLE_CHOICES
UserUpdateValid(instance, username, role, partial) ==
    /\ username = NoUsername => partial
    /\ username # NoUsername => ValidateUsernameOfUpdate(instance, username)
    /\ role # NoRole => (role \in ROLE_CHOICES /\ ValidateRole(instance, role))

ProfileResponse(op, u, pk, role, status) ==
    [op |-> op, user |-> u, pk |-> pk, role |-> role, status |-> status]

UpdateResponse(u, pk, username, role, partial, status) ==
    [op |-> "user_update", user |-> u, pk |-> pk, username |-> username, role |-> role,
     partial |-> partial, status |-> status]

ProfileIdle ==
    /\ UNCHANGED <<nextUserId, nextLikeId, nextCommentId, nextFollowId, toggleHist,
                   nextGuestRequestId>>
    /\ UNCHANGED airVars
    /\ UNCHANGED procs

\* PUT (partial = FALSE) or PATCH (partial = TRUE) /api/users/{pk}/ by user u
UserUpdate(u, pk, username, role, partial) ==
    /\ ProfileIdle
    /\ UNCHANGED <<content, likes, comments, follows, notifications, guestRequests, guests>>
    /\ IF pk \notin UserIds
         THEN /\ last' = UpdateResponse(u, pk, username, role, partial, 404)
              /\ UNCHANGED users
       ELSE LET instance == UserById(pk)
            IN  IF ~IsOwnProfile(instance, u)
                  THEN /\ last' = UpdateResponse(u, pk, username, role, partial, 403)
                       /\ UNCHANGED users
                ELSE IF ~UserUpdateValid(instance, username, role, partial)
                  THEN /\ last' = UpdateResponse(u, pk, username, role, partial, 400)
                       /\ UNCHANGED users
                ELSE /\ users' = (users \ {instance}) \cup
                          { [instance EXCEPT
                               !.username = IF username = NoUsername THEN @ ELSE username,
                               !.role = IF role = NoRole THEN @ ELSE role] }
                     /\ last' = UpdateResponse(u, pk, username, role, partial, 200)

\* The shows, posts and events user uid owns
OwnedContent(uid) ==
    { k \in DOMAIN content :
        /\ content[k].exists
        /\ \/ k[1] = ShowCT /\ content[k].creator = uid
           \/ k[1] = PostCT /\ content[k].author = uid
           \/ k[1] = EventCT /\ content[k].organizer = uid }

\* user.delete(): the foreign keys to User are on_delete=CASCADE, and the
\* deleted shows, posts and events take their likes and comments with them
UserDelete(uid) ==
    LET owned == OwnedContent(uid)
        gone == { c \in comments :
                    c.user = uid \/ <<c.content_type, c.object_id>> \in owned }
    IN  [users |-> { x \in users : x.id # uid },
         content |-> [k \in DOMAIN content |-> IF k \in owned THEN NoObject ELSE content[k]],
         likes |-> { l \in likes :
                       l.user # uid /\ <<l.content_type, l.object_id>> \notin owned },
         comments |-> comments \ CollectReplies(comments, gone),
         follows |-> { f \in follows : f.follower # uid /\ f.following # uid },
         notifications |-> SelectSeq(notifications,
                                     LAMBDA n : n.recipient # uid /\ n.actor # uid),
         guestRequests |-> { r \in guestRequests :
                               r.requester # uid /\ <<ShowCT, r.show>> \notin owned },
         guests |-> [s \in DOMAIN guests |->
                        IF <<ShowCT, s>> \in owned THEN {} ELSE guests[s] \ {uid}]]

\* DELETE /api/users/{pk}/ by user u: the destroy action of ModelViewSet, for
\* which get_permissions asks for an authenticated user and nothing else
UserDestroy(u, pk) ==
    /\ ProfileIdle
    /\ IF pk \notin UserIds
         THEN /\ last' = ProfileResponse("user_destroy", u, pk, NoRole, 404)
              /\ UNCHANGED <<users, content, likes, comments, follows, notifications,
                             guestRequests, guests>>
       ELSE LET left == UserDelete(pk)
            IN  /\ users' = left.users
                /\ content' = left.content
                /\ likes' = left.likes
                /\ comments' = left.comments
                /\ follows' = left.follows
                /\ notifications' = left.notifications
                /\ guestRequests' = left.guestRequests
                /\ guests' = left.guests
                /\ last' = ProfileResponse("user_destroy", u, pk, NoRole, 204)

\* content values of the post updates: blank and a new text
PostContents == { " ", "second" }

\* PostCreateSerializer.validate_content
ValidateContent(value) == value # "" /\ value # " "

\* PUT or PATCH /api/posts/{pk}/ by user u: PostViewSet.update
PostUpdate(u, pk, value) ==
    /\ ProfileIdle
    /\ UNCHANGED <<users, likes, comments, follows, notifications, guestRequests, guests>>
    /\ IF ~ContentObject(PostCT, pk).exists
         THEN /\ last' = ProfileResponse("post_update", u, pk, NoRole, 404)
              /\ UNCHANGED content
       ELSE IF ContentObject(PostCT, pk).author # u
         THEN /\ last' = ProfileResponse("post_update", u, pk, NoRole, 403)
              /\ UNCHANGED content
       ELSE IF ~ValidateContent(value)
         THEN /\ last' = ProfileResponse("post_update", u, pk, NoRole, 400)
              /\ UNCHANGED content
       ELSE /\ content' = [content EXCEPT ![<<PostCT, pk>>].content = value]
            /\ last' = ProfileResponse("post_update", u, pk, NoRole, 200)

\* The users who send the profile and post requests and whose rows the
\* requests name: the author of post 1, another creator, the staff user
ProfilePks == { 1, 2, PlainUser }

\* The bodies of the profile updates: <<username, role, partial>>
ProfileRequests ==
    { << NoUsername, "user", TRUE >>, << NoUsername, "creator", TRUE >>,
      << NoUsername, "admin", TRUE >>, << NoUsername, NoRole, FALSE >>,
      << << "u", "1" >>, NoRole, TRUE >>, << << "n", "e", "w" >>, "user", TRUE >>,
      << << "n", "e", "w" >>, "creator", FALSE >> }

NextProfile ==
    \/ \E u \in ProfilePks \cap UserIds, pk \in ProfilePks, r \in ProfileRequests :
          UserUpdate(u, pk, r[1], r[2], r[3])
    \/ \E u \in ProfilePks \cap UserIds, pk \in ProfilePks : UserDestroy(u, pk)
    \/ \E u \in ProfilePks \cap UserIds, value \in PostContents : PostUpdate(u, 1, value)
    \/ \E u \in ProfilePks \cap UserIds : PostDestroy(u, 1)

SpecProfile == InitEngage /\ [][NextProfile]_vars

\* C16: an update (PUT or PATCH) of a user profile by a different user, an
\* update of a Post by a user who is not its author, and a delete of a Post by
\* a user who is neither its author nor staff each return 403 and leave the
\* targeted row unchanged.
C16_OwnershipViolations ==
    [][ /\ ( /\ last'.op = "user_update"
             /\ last'.pk \in UserIds
             /\ last'.user # last'.pk )
           => (last'.status = 403 /\ users' = users)
        /\ ( /\ last'.op = "post_update"
             /\ ContentObject(PostCT, last'.pk).exists
             /\ ContentObject(PostCT, last'.pk).author # last'.user )
           => (last'.status = 403 /\ content' = content)
        /\ ( /\ last'.op = "post_destroy"
             /\ ContentObject(PostCT, last'.pk).exists
             /\ ContentObject(PostCT, last'.pk).author # last'.user
             /\ ~UserById(last'.user).is_staff )
           => (last'.status = 403 /\ content' = content /\ likes' = likes) ]_vars

\* User 1 just sent a PATCH with a new username and role for the profile of
\* user 2 and got 403; user 2 has the username and role of the start.
C16_Witness ==
    /\ last.op = "user_update" /\ last.status = 403
    /\ last.user = 1 /\ last.pk = 2 /\ last.partial
    /\ last.username = << "n", "e", "w" >> /\ last.role = "user"
    /\ \E x \in users : x.id = 2 /\ x \in InitUsers

\* C17: no sequence of API operations removes a User row: a user who exists
\* exists in every later state.
C17_UsersNeverRemoved ==
    [][ \A x \in users : \E y \in users' : y.id = x.id ]_vars

\* C20: the role of a user never goes from creator back to user through a
\* profile update: a PUT or PATCH that sets role to user on a creator is
\* rejected and leaves the role unchanged, while a change from user to creator
\* (in an otherwise valid update of the own profile) is accepted.
C20_NoRoleDowngrade ==
    [][ \A x \in users :
          /\ x.role = "creator" => \A y \in users' : y.id = x.id => y.role = "creator"
          /\ ( /\ last'.op = "user_update" /\ last'.pk = x.id
               /\ last'.role = "user" /\ x.role = "creator" )
             => (last'.status \in {400, 403} /\ users' = users)
          /\ ( /\ last'.op = "user_update" /\ last'.pk = x.id /\ last'.user = x.id
               /\ last'.role = "creator" /\ x.role = "user"
               /\ last'.username = NoUsername /\ last'.partial )
             => ( /\ last'.status = 200
                  /\ [x EXCEPT !.role = "creator"] \in users' ) ]_vars

\* The user who started with role user is a creator now, and the last request,
\* a PATCH of the own profile with role user, was rejected with 400.
C20_Witness ==
    /\ last.op = "user_update" /\ last.status = 400
    /\ last.user = PlainUser /\ last.pk = PlainUser
    /\ last.role = "user" /\ last.partial /\ last.username = NoUsername
    /\ \E x \in users : x.id = PlainUser /\ x.role = "creator"

\* ------------------------------------------------------------------------
\* CommentViewSet: update and destroy
\* ------------------------------------------------------------------------
CommentEditResponse(op, u, pk, status) ==
    [op |-> op, user |-> u, pk |-> pk, status |-> status]

\* PATCH /api/comments/{pk}/ by user u with body {text}: the update of
\* ModelViewSet with CommentCreateSerializer; the viewset has no owner check
CommentUpdate(u, pk, text) ==
    /\ UNCHANGED <<users, nextUserId, content, likes, nextLikeId, nextCommentId, follows,
                   nextFollowId, toggleHist, notifications>>
    /\ UNCHANGED guestVars
    /\ UNCHANGED airVars
    /\ UNCHANGED procs
    /\ IF ~\E c \in comments : c.id = pk
         THEN /\ last' = CommentEditResponse("comment_update", u, pk, 404)
              /\ UNCHANGED comments
       ELSE IF text = ""
         THEN /\ last' = CommentEditResponse("comment_update", u, pk, 400)
              /\ UNCHANGED comments
       ELSE /\ comments' = { IF c.id = pk THEN [c EXCEPT !.text = text] ELSE c :
                             c \in comments }
            /\ last' = CommentEditResponse("comment_update", u, pk, 200)

\* DELETE /api/comments/{pk}/ by user u: the destroy of ModelViewSet; the
\* replies go with the comment
CommentDestroy(u, pk) ==
    /\ UNCHANGED <<users, nextUserId, content, likes, nextLikeId, nextCommentId, follows,
                   nextFollowId, toggleHist, notifications>>
    /\ UNCHANGED guestVars
    /\ UNCHANGED airVars
    /\ UNCHANGED procs
    /\ IF ~\E c \in comments : c.id = pk
         THEN /\ last' = CommentEditResponse("comment_delete", u, pk, 404)
              /\ UNCHANGED comments
       ELSE /\ comments' =
                 comments \ CollectReplies(comments, { c \in comments : c.id = pk })
            /\ last' = CommentEditResponse("comment_delete", u, pk, 204)

NextCommentEdit ==
    \/ \E u \in Users, parent \in 0..(nextCommentId - 1) :
          CommentCreate(u, ShowCT, 1, parent, "hi")
    \/ \E u \in Users, pk \in 1..nextCommentId, text \in { "", "hi", "edited" } :
          CommentUpdate(u, pk, text)
    \/ \E u \in Users, pk \in 1..nextCommentId : CommentDestroy(u, pk)

SpecCommentEdit == InitEngage /\ [][NextCommentEdit]_vars

\* C18: a Comment can be updated or deleted only by the user who wrote it: an
\* update or delete request on a comment by any other authenticated user
\* leaves the comment (its text, parent and target reference, and its
\* existence) unchanged.
C18_CommentOwnerOnly ==
    [][ \A c \in comments :
          ( /\ last'.op \in { "comment_update", "comment_delete" }
            /\ last'.pk = c.id
            /\ last'.user # c.user )
          => c \in comments' ]_vars

\* ------------------------------------------------------------------------
\* Concurrent UserViewSet.complete_setup calls
\* ------------------------------------------------------------------------
\* The bodies of the concurrent calls: <<wallet_address, username>>
SetupRaceRequests ==
    { << WalletA, NoUsername >>, << WalletA, << "b", "o", "b" >> >>,
      << WalletB, NoUsername >>, << WalletBadPrefix, NoUsername >> }

InitSetupRace ==
    /\ IdleTables
    /\ airShow = [is_recurring |-> FALSE, recurrence_type |-> "NULL",
                  day_of_week |-> NoDay, cancelled_instances |-> << >>]
    /\ airDate = NoDate
    /\ airResult = "unset"
    /\ last = NoRequest
    /\ procs \in [ Procs -> { [pc |-> "check", wallet |-> r[1], username |-> r[2],
                               passed |-> FALSE, status |-> 0] : r \in SetupRaceRequests } ]

\* complete_setup up to the atomic block: the serializer's validation, the
\* view's check for the wallet and the choice of the username
SetupCheck(p) ==
    LET me == procs[p]
        base == UserPrefix \o Prefix(me.wallet, 8)
        gen == GenerateUsername(users, base, base, 1)
        name == IF me.username # NoUsername THEN me.username
                ELSE IF gen.fallback THEN UserPrefix \o Repeat("0", 8)
                ELSE gen.username
    IN  /\ me.pc = "check"
        /\ UNCHANGED <<users, nextUserId, content, notifications>>
        /\ UNCHANGED engageVars
        /\ UNCHANGED guestVars
        /\ UNCHANGED airVars
        /\ IF \/ ~CompleteSetupValid(users, me.wallet, me.username, "user")
              \/ WalletRegistered(users, me.wallet)
             THEN /\ procs' = [procs EXCEPT ![p] = [me EXCEPT !.pc = "done",
                                                             !.status = 400]]
                  /\ last' = SetupResponse(me.wallet, 400)
             ELSE /\ procs' = [procs EXCEPT ![p] = [me EXCEPT !.pc = "insert",
                                                             !.passed = TRUE,
                                                             !.username = name]]
                  /\ UNCHANGED last

\* the atomic block of complete_setup and the response
SetupInsert(p) ==
    LET me == procs[p]
        row == [id |-> nextUserId, username |-> me.username,
                stacks_address |-> me.wallet, role |-> "user", is_staff |-> FALSE]
        made == UserCreate(users, row)
    IN  /\ me.pc = "insert"
        /\ UNCHANGED <<content, notifications>>
        /\ UNCHANGED engageVars
        /\ UNCHANGED guestVars
        /\ UNCHANGED airVars
        /\ users' = made.table
        /\ nextUserId' = IF made.error = "" THEN nextUserId + 1 ELSE nextUserId
        /\ procs' = [procs EXCEPT ![p] =
                        [me EXCEPT !.pc = "done",
                                   !.status = IF made.error = "" THEN 201 ELSE 400]]
        /\ last' = SetupResponse(me.wallet, IF made.error = "" THEN 201 ELSE 400)

NextSetupRace == \E p \in Procs : SetupCheck(p) \/ SetupInsert(p)

SpecSetupRace == InitSetupRace /\ [][NextSetupRace]_vars

\* The calls for wallet w that passed the checks before the atomic block
PassedFor(w) == { p \in Procs : procs[p].wallet = w /\ procs[p].passed }

\* C19: if complete_setup calls for the same wallet address run concurrently
\* and pass the pre-write existence checks, exactly one User row with that
\* address exists afterwards: one call returns 201, each losing call's insert
\* fails inside the atomic block, leaves no row and returns 400.
C19_SetupRace ==
    \A w \in Wallets :
        /\ Cardinality({ u \in users : u.stacks_address = w }) <= 1
        /\ (PassedFor(w) # {} /\ \A p \in PassedFor(w) : procs[p].pc = "done")
            => ( /\ Cardinality({ u \in users : u.stacks_address = w }) = 1
                 /\ Cardinality({ p \in PassedFor(w) : procs[p].status = 201 }) = 1
                 /\ \A p \in PassedFor(w) : procs[p].status \in {201, 400}
                 /\ Cardinality(users) = nextUserId - 1 )

\* Two calls for WalletA passed the checks and are done: one with 201, one
\* with 400, and one user holds the address.
C19_Witness ==
    \E p, q \in PassedFor(WalletA) :
        /\ procs[p].pc = "done" /\ procs[q].pc = "done"
        /\ procs[p].status = 201 /\ procs[q].status = 400
        /\ Cardinality({ u \in users : u.stacks_address = WalletA }) = 1

\* C21: a create_request by a caller with role creator, for an existing show
\* of another user, without an earlier request of the caller for it, persists
\* exactly one GuestRequest with status pending, inserts exactly one
\* Notification of type guest_request with recipient the show's creator and
\* actor the requester, and returns 201.
C21_CreateRequestSucceeds ==
    [][ ( /\ last'.op = "guest_create_request"
          /\ ContentObject(ShowCT, last'.pk).exists
          /\ UserById(last'.user).role = "creator"
          /\ ShowCreator(last'.pk) # last'.user
          /\ ~GuestRequestExists(last'.pk, last'.user) )
        => ( /\ last'.status = 201
             /\ \E r \in guestRequests' \ guestRequests :
                   /\ guestRequests' = guestRequests \cup {r}
                   /\ r.show = last'.pk /\ r.requester = last'.user
                   /\ r.status = "pending"
             /\ Len(notifications') = Len(notifications) + 1
             /\ LET n == notifications'[Len(notifications')]
                IN  /\ n.notification_type = "guest_request"
                    /\ n.recipient = ShowCreator(last'.pk)
                    /\ n.actor = last'.user ) ]_vars

\* C27: should_air_on_date is false for every date when is_recurring is false;
\* for a recurring show it is false when recurrence_type is empty or none of the
\* four known types, and when recurrence_type is SPECIFIC_DAY with day_of_week
\* unset.
C27_NeverAirs ==
    AirCalled =>
        /\ ~airShow.is_recurring => airResult = FALSE
        /\ airShow.recurrence_type \notin RecurrenceTypes => airResult = FALSE
        /\ (airShow.recurrence_type = "SPECIFIC_DAY" /\ airShow.day_of_week = NoDay)
              => airResult = FALSE

\* A recurring SPECIFIC_DAY show without a day of week has been evaluated for a
\* date that is not cancelled.
C27_Witness ==
    /\ AirCalled
    /\ airShow.cancelled_instances = << >>
    /\ airShow.is_recurring
    /\ airShow.recurrence_type = "SPECIFIC_DAY"
    /\ airShow.day_of_week = NoDay
    /\ airResult = FALSE

\* ------------------------------------------------------------------------
\* Username generation of complete_setup over tables that hold candidates
\* ------------------------------------------------------------------------
\* The k-th name the loop assigns for a wallet: user_<wallet[:8]>, then that
\* name with the suffix _k
Candidate(wallet, k) ==
    IF k = 0 THEN UserPrefix \o Prefix(wallet, 8)
    ELSE UserPrefix \o Prefix(wallet, 8) \o << "_", Digit(k) >>

\* Accounts registered with a password whose usernames are the candidates in
\* taken, numbered in the order of the candidates
TakenTable(taken) ==
    { [id |-> Cardinality({ j \in taken : j <= k }),
       username |-> Candidate(WalletA, k),
       stacks_address |-> NullWallet,
       role |-> "user",
       is_staff |-> FALSE] : k \in taken }

InitGenerate ==
    /\ \E taken \in SUBSET (0..(max_retries - 1)) :
          /\ users = TakenTable(taken)
          /\ nextUserId = Cardinality(taken) + 1
    /\ content = << >>
    /\ likes = {} /\ nextLikeId = 1
    /\ comments = {} /\ nextCommentId = 1
    /\ follows = {} /\ nextFollowId = 1
    /\ notifications = << >>
    /\ guestRequests = {} /\ nextGuestRequestId = 1
    /\ guests = << >>
    /\ toggleHist = << >>
    /\ procs = NoProcs
    /\ airShow = [is_recurring |-> FALSE, recurrence_type |-> "NULL",
                  day_of_week |-> NoDay, cancelled_instances |-> << >>]
    /\ airDate = NoDate
    /\ airResult = "unset"
    /\ last = NoRequest

\* complete_setup without a username, for two wallets with the same first eight
\* characters
NextGenerate ==
    \E wallet \in { WalletA, WalletA2 }, hex \in UuidHex :
        CompleteSetup(wallet, NoUsername, "user", hex)

SpecGenerate == InitGenerate /\ [][NextGenerate]_vars

\* C25: a complete_setup without a username makes at most max_retries (10)
\* existence checks; the username of the user it creates is the first of the
\* candidates user_<wallet[:8]>, .._1, .._2, ... that no user held, and it is
\* the random fallback name only when every candidate the loop checked was
\* taken.
C25_UsernameLoop ==
    [][ (last'.op = "complete_setup" /\ last'.status = 201) =>
          LET w == last'.wallet_address
              gen == GenerateUsername(users, Candidate(w, 0), Candidate(w, 0), 1)
              made == CHOOSE u \in users' \ users : TRUE
              checked == 0..(gen.checks - 1)
          IN  /\ gen.checks <= max_retries
              /\ \/ \E k \in checked :
                       /\ made.username = Candidate(w, k)
                       /\ ~UsernameTaken(users, Candidate(w, k))
                       /\ \A j \in 0..(k - 1) : UsernameTaken(users, Candidate(w, j))
                 \/ /\ made.username \in { UserPrefix \o hex : hex \in UuidHex }
                    /\ \A j \in checked : UsernameTaken(users, Candidate(w, j)) ]_vars

\* The loop ran out of retries twice, every checked candidate being taken, and
\* both wallets got their user under a fallback name.
C25_Witness ==
    /\ last.op = "complete_setup" /\ last.status = 201
    /\ \A k \in 0..(max_retries - 2) : UsernameTaken(users, Candidate(WalletA, k))
    /\ \E u \in users : u.stacks_address = WalletA
                        /\ u.username \in { UserPrefix \o hex : hex \in UuidHex }
    /\ \E u \in users : u.stacks_address = WalletA2
                        /\ u.username \in { UserPrefix \o hex : hex \in UuidHex }

\* ------------------------------------------------------------------------
\* Show reminders: ShowViewSet.respond_to_reminder
\* ------------------------------------------------------------------------
Sunday == [year |-> 2026, month |-> 11, day |-> 1]

\* Hours since 0001-01-01T00:00 UTC of the datetime an ISO string names
Instant(s) == ToOrdinal(s.date) * 24 + s.hour - s.offset

\* scheduled_for values of the requests: Saturday 20:00+00:00, the same instant
\* written as Sunday 01:00+05:00, Sunday 20:00+00:00, Wednesday 20:00+00:00, an
\* absent value and a string that is no ISO datetime
SatEvening == [kind |-> "iso", date |-> Saturday, hour |-> 20, offset |-> 0]
SatEveningEast == [kind |-> "iso", date |-> Sunday, hour |-> 1, offset |-> 5]
SunEvening == [kind |-> "iso", date |-> Sunday, hour |-> 20, offset |-> 0]
WedEvening == [kind |-> "iso", date |-> Wednesday, hour |-> 20, offset |-> 0]
IsoScheduledFor == { SatEvening, SatEveningEast, SunEvening, WedEvening }
ScheduledForValues ==
    IsoScheduledFor \cup
    { [kind |-> k, date |-> NoDate, hour |-> 0, offset |-> 0] :
        k \in { "absent", "malformed" } }

\* response values of the requests
ReminderAnswers == { "confirmed", "cancelled", "postponed" }

\* str.upper() of the accepted answers
Upper(response) == IF response = "confirmed" THEN "CONFIRMED" ELSE "CANCELLED"

\* show.cancelled_instances.append(date_str) without the membership test
CancelInstanceAgain(cancelled_instances, date_str) ==
    Append(cancelled_instances, date_str)

\* if date_str not in show.cancelled_instances: append
CancelInstance(cancelled_instances, date_str) ==
    IF date_str \in Range(cancelled_instances) THEN cancelled_instances
    ELSE Append(cancelled_instances, date_str)

ReminderResponse(u, scheduled_for, response, status) ==
    [op |-> "respond_to_reminder", user |-> u, scheduled_for |-> scheduled_for,
     response |-> response, status |-> status]

\* POST /api/shows/{slug}/respond_to_reminder/ by the authenticated user u
RespondToReminder(u, scheduled_for, response) ==
    /\ UNCHANGED <<users, nextUserId, content, airDate, airResult>>
    /\ UNCHANGED engageVars
    /\ UNCHANGED guestVars
    /\ UNCHANGED procs
    /\ IF airShow.creator # u
         THEN /\ last' = ReminderResponse(u, scheduled_for, response, 403)
              /\ UNCHANGED <<airShow, notifications>>
       ELSE IF scheduled_for.kind = "absent"
               \/ response \notin { "confirmed", "cancelled" }
         THEN /\ last' = ReminderResponse(u, scheduled_for, response, 400)
              /\ UNCHANGED <<airShow, notifications>>
       ELSE IF scheduled_for.kind = "malformed"
         \* datetime.fromisoformat raises ValueError
         THEN /\ last' = ReminderResponse(u, scheduled_for, response, 400)
              /\ UNCHANGED <<airShow, notifications>>
       ELSE IF \A r \in airShow.reminders : r.scheduled_for # Instant(scheduled_for)
         \* ShowReminder.DoesNotExist
         THEN /\ last' = ReminderResponse(u, scheduled_for, response, 404)
              /\ UNCHANGED <<airShow, notifications>>
       ELSE LET answered ==
                    { IF r.scheduled_for = Instant(scheduled_for)
                        THEN [r EXCEPT !.creator_response = Upper(response)]
                        ELSE r : r \in airShow.reminders }
                made == NotificationCreate(
                            notifications,
                            { "recipient", "actor", "notification_type",
                              "content_type", "object_id" },
                            NotificationRow(u, u, "show_cancelled", None, None))
            IN  IF response = "cancelled"
                  THEN /\ Len(notifications) < MaxNotifications
                       /\ airShow' =
                            [airShow EXCEPT
                               !.reminders = answered,
                               !.cancelled_instances =
                                   CancelInstance(@, IsoFormat(scheduled_for.date))]
                       /\ notifications' = made.table
                       /\ last' = ReminderResponse(u, scheduled_for, response,
                                      IF made.error = "" THEN 200 ELSE 500)
                  ELSE /\ airShow' = [airShow EXCEPT !.reminders = answered]
                       /\ UNCHANGED notifications
                       /\ last' = ReminderResponse(u, scheduled_for, response, 200)

\* A daily or weekend show of user 1 with pending reminders for Saturday and
\* Sunday evening
InitReminder ==
    /\ users = InitUsers /\ nextUserId = NumUsers + 2
    /\ content = << >>
    /\ likes = {} /\ nextLikeId = 1
    /\ comments = {} /\ nextCommentId = 1
    /\ follows = {} /\ nextFollowId = 1
    /\ notifications = << >>
    /\ guestRequests = {} /\ nextGuestRequestId = 1
    /\ guests = << >>
    /\ toggleHist = << >>
    /\ procs = NoProcs
    /\ \E type \in { "DAILY", "WEEKENDS" } :
          airShow = [is_recurring |-> TRUE, recurrence_type |-> type,
                     day_of_week |-> NoDay, cancelled_instances |-> << >>,
                     creator |-> 1,
                     reminders |->
                        { [scheduled_for |-> Instant(s),
                           creator_response |-> "PENDING"] :
                            s \in { SatEvening, SunEvening } }]
    /\ airDate = NoDate
    /\ airResult = "unset"
    /\ last = NoRequest

NextReminder ==
    \/ \E u \in Users, s \in ScheduledForValues, response \in ReminderAnswers :
          RespondToReminder(u, s, response)
    \/ \E date \in { Saturday, Sunday, Wednesday } : CallShouldAirOnDate(date)

SpecReminder == InitReminder /\ [][NextReminder]_vars

\* respond_to_reminder has just answered 'cancelled' to the reminder at s
CancelAnswered(s) ==
    /\ last.op = "respond_to_reminder"
    /\ last.status = 200
    /\ last.response = "cancelled"
    /\ last.scheduled_for = s

\* C23: once the creator has answered 'cancelled' to an existing reminder for
\* datetime t, the ISO date of t is in cancelled_instances exactly once and
\* should_air_on_date is false for that date, in that state and in every later
\* one, repeated 'cancelled' and later 'confirmed' answers included.
C23_CancelledStays ==
    \A s \in IsoScheduledFor :
        [](CancelAnswered(s) =>
             [](/\ Cardinality({ i \in 1..Len(airShow.cancelled_instances) :
                        airShow.cancelled_instances[i] = IsoFormat(s.date) }) = 1
                /\ ShouldAirOnDate(airShow, s.date) = FALSE
                /\ (AirCalled /\ airDate = s.date) => airResult = FALSE))

\* Saturday's reminder was cancelled twice and then confirmed; Saturday is the
\* only cancelled date and should_air_on_date has just refused it.
C23_Witness ==
    /\ AirCalled /\ airDate = Saturday /\ airResult = FALSE
    /\ airShow.cancelled_instances = << IsoFormat(Saturday) >>
    /\ Len(notifications) = 2
    /\ \E r \in airShow.reminders :
          r.scheduled_for = Instant(SatEvening) /\ r.creator_response = "CONFIRMED"

\* ------------------------------------------------------------------------
\* Writing shows: ShowViewSet create, update and partial_update with
\* ShowCreateSerializer
\* ------------------------------------------------------------------------
NoTime == "NULL"
FivePm == "17:00"

RecurrenceFields == { "is_recurring", "recurrence_type", "day_of_week", "scheduled_time" }

\* The request bodies: the recurrence fields that are given and their values
\* ('MONTHLY' and day 7 are no choices), with or without the required title and
\* description
ShowRequests ==
    [ given : SUBSET RecurrenceFields,
      is_recurring : BOOLEAN,
      recurrence_type : { "NULL", "", "DAILY", "SPECIFIC_DAY", "MONTHLY" },
      day_of_week : { NoDay, 2, 7 },
      scheduled_time : { NoTime, FivePm },
      titled : BOOLEAN ]

\* data.get(field, default)
Get(data, field, default) == IF field \in data.given THEN data[field] ELSE default

\* The field validation of the serializer: the choices of recurrence_type and
\* day_of_week, and the required fields of a full write
ShowFieldsValid(data, partial) ==
    /\ "recurrence_type" \in data.given
          => data.recurrence_type \in RecurrenceValues
    /\ "day_of_week" \in data.given => data.day_of_week \in DayValues
    /\ partial \/ data.titled

\* ShowCreateSerializer.validate
ShowValidate(data) ==
    LET is_recurring == Get(data, "is_recurring", FALSE)
        recurrence_type == Get(data, "recurrence_type", "NULL")
        day_of_week == Get(data, "day_of_week", NoDay)
        scheduled_time == Get(data, "scheduled_time", NoTime)
    IN  is_recurring =>
            /\ recurrence_type \notin { "", "NULL" }
            /\ scheduled_time # NoTime
            /\ ~(recurrence_type = "SPECIFIC_DAY" /\ day_of_week = NoDay)

\* setattr(instance, attr, value) for the fields of validated_data
SetAttrs(instance, data) ==
    [ f \in DOMAIN instance |->
        IF f \in data.given THEN data[f] ELSE instance[f] ]

\* The row of a show that is not stored, with the defaults of the model
NoShow ==
    [exists |-> FALSE, creator |-> None, is_recurring |-> FALSE,
     recurrence_type |-> "NULL", day_of_week |-> NoDay, scheduled_time |-> NoTime,
     cancelled_instances |-> << >>]

ShowWriteIdle ==
    /\ UNCHANGED <<users, nextUserId, content, notifications, airDate, airResult>>
    /\ UNCHANGED engageVars
    /\ UNCHANGED guestVars
    /\ UNCHANGED procs

\* POST /api/shows/ by user u (creators only)
ShowCreate(u, data) ==
    /\ ShowWriteIdle
    /\ ~airShow.exists
    /\ IF UserById(u).role # "creator"
         THEN /\ last' = [op |-> "show_create", status |-> 403]
              /\ UNCHANGED airShow
       ELSE IF ~ShowFieldsValid(data, FALSE) \/ ~ShowValidate(data)
         THEN /\ last' = [op |-> "show_create", status |-> 400]
              /\ UNCHANGED airShow
       ELSE /\ airShow' = SetAttrs([NoShow EXCEPT !.exists = TRUE, !.creator = u], data)
            /\ last' = [op |-> "show_create", status |-> 201]

\* PUT (partial = FALSE) or PATCH (partial = TRUE) /api/shows/{slug}/ by user u
\* (owner only)
ShowUpdate(u, data, partial) ==
    /\ ShowWriteIdle
    /\ IF ~airShow.exists
         THEN /\ last' = [op |-> "show_update", status |-> 404]
              /\ UNCHANGED airShow
       ELSE IF airShow.creator # u
         THEN /\ last' = [op |-> "show_update", status |-> 403]
              /\ UNCHANGED airShow
       ELSE IF ~ShowFieldsValid(data, partial) \/ ~ShowValidate(data)
         THEN /\ last' = [op |-> "show_update", status |-> 400]
              /\ UNCHANGED airShow
       ELSE /\ airShow' = SetAttrs(airShow, data)
            /\ last' = [op |-> "show_update", status |-> 200]

InitShowWrite ==
    /\ users = InitUsers /\ nextUserId = NumUsers + 2
    /\ content = << >>
    /\ likes = {} /\ nextLikeId = 1
    /\ comments = {} /\ nextCommentId = 1
    /\ follows = {} /\ nextFollowId = 1
    /\ notifications = << >>
    /\ guestRequests = {} /\ nextGuestRequestId = 1
    /\ guests = << >>
    /\ toggleHist = << >>
    /\ procs = NoProcs
    /\ airShow = NoShow
    /\ airDate = NoDate
    /\ airResult = "unset"
    /\ last = NoRequest

NextShowWrite ==
    \/ \E u \in Users \cup {PlainUser}, data \in ShowRequests : ShowCreate(u, data)
    \/ \E u \in Users, data \in ShowRequests, partial \in BOOLEAN :
          ShowUpdate(u, data, partial)

SpecShowWrite == InitShowWrite /\ [][NextShowWrite]_vars

\* C22: after any sequence of ShowViewSet create, PUT and PATCH calls, a stored
\* show with is_recurring = true has a non-empty recurrence_type and a
\* scheduled_time, and a day_of_week when its recurrence_type is SPECIFIC_DAY.
C22_RecurringComplete ==
    (airShow.exists /\ airShow.is_recurring) =>
        /\ airShow.recurrence_type \notin { "", "NULL" }
        /\ airShow.scheduled_time # NoTime
        /\ airShow.recurrence_type = "SPECIFIC_DAY" => airShow.day_of_week # NoDay

\* ------------------------------------------------------------------------
\* Reading shows: ShowViewSet.get_queryset behind list and retrieve
\* ------------------------------------------------------------------------
STATUS_CHOICES == { "draft", "published", "archived" }

\* request.user of a request without credentials
AnonymousUser == None

\* ?status= values of the requests: no parameter, an empty one, two choices
StatusParams == { "absent", "", "draft", "published" }

\* The pks of the shows get_queryset returns to user for the status parameter
GetQueryset(user, status_param) ==
    { pk \in ShowIds :
        /\ ContentObject(ShowCT, pk).exists
        /\ IF status_param \notin { "absent", "" }
             THEN ContentObject(ShowCT, pk).status = status_param
             ELSE (user = AnonymousUser)
                     => ContentObject(ShowCT, pk).status = "published" }

ShowReadIdle ==
    /\ UNCHANGED <<users, nextUserId, content, notifications>>
    /\ UNCHANGED engageVars
    /\ UNCHANGED guestVars
    /\ UNCHANGED airVars
    /\ UNCHANGED procs

\* GET /api/shows/ by user
ShowList(user, status_param) ==
    /\ ShowReadIdle
    /\ last' = [op |-> "show_list", user |-> user, status_param |-> status_param,
                returned |-> GetQueryset(user, status_param), status |-> 200]

\* GET /api/shows/{slug}/ by user: get_object on get_queryset
ShowRetrieve(user, status_param, pk) ==
    /\ ShowReadIdle
    /\ last' = [op |-> "show_retrieve", user |-> user, status_param |-> status_param,
                returned |-> GetQueryset(user, status_param) \cap {pk},
                status |-> IF pk \in GetQueryset(user, status_param) THEN 200 ELSE 404]

\* A show of every user in Users, each in any status
InitShowRead ==
    /\ users = InitUsers /\ nextUserId = NumUsers + 2
    /\ \E st \in [Users -> STATUS_CHOICES] :
          content = [ k \in { <<ShowCT, u>> : u \in Users } |->
                        [exists |-> TRUE, creator |-> k[2], author |-> None,
                         organizer |-> None, status |-> st[k[2]]] ]
    /\ likes = {} /\ nextLikeId = 1
    /\ comments = {} /\ nextCommentId = 1
    /\ follows = {} /\ nextFollowId = 1
    /\ notifications = << >>
    /\ guestRequests = {} /\ nextGuestRequestId = 1
    /\ guests = << >>
    /\ toggleHist = << >>
    /\ procs = NoProcs
    /\ airShow = [is_recurring |-> FALSE, recurrence_type |-> "NULL",
                  day_of_week |-> NoDay, cancelled_instances |-> << >>]
    /\ airDate = NoDate
    /\ airResult = "unset"
    /\ last = NoRequest

NextShowRead ==
    \/ \E user \in Users \cup {AnonymousUser}, status_param \in StatusParams :
          ShowList(user, status_param)
    \/ \E user \in Users \cup {AnonymousUser}, status_param \in StatusParams,
          pk \in ShowIds :
          ShowRetrieve(user, status_param, pk)

SpecShowRead == InitShowRead /\ [][NextShowRead]_vars

\* C26: a show listing or retrieval without a status query parameter returns to
\* a requester only published shows, apart from the requester's own shows.
C26_OnlyPublishedForOthers ==
    (last.op \in { "show_list", "show_retrieve" } /\ last.status_param = "absent")
        => \A pk \in last.returned :
              ContentObject(ShowCT, pk).creator # last.user
                 => ContentObject(ShowCT, pk).status = "published"

\* ------------------------------------------------------------------------
\* Concurrent ShowViewSet.track_share calls on one show
\* ------------------------------------------------------------------------
\* show = self.get_object(): the process reads the row of the show
ShareGet(p) ==
    /\ procs[p].pc = "get"
    /\ procs[p].calls < MaxShareCalls
    /\ procs' = [procs EXCEPT ![p] = [@ EXCEPT !.pc = "save",
                                               !.share_count = airShow.share_count]]
    /\ UNCHANGED <<users, nextUserId, content, notifications, last>>
    /\ UNCHANGED engageVars
    /\ UNCHANGED guestVars
    /\ UNCHANGED airVars

\* show.share_count += 1; show.save(update_fields=['share_count']) and the
\* response with the count of the instance
ShareSave(p) ==
    /\ procs[p].pc = "save"
    /\ airShow' = [airShow EXCEPT !.share_count = procs[p].share_count + 1]
    /\ procs' = [procs EXCEPT ![p] = [@ EXCEPT !.pc = "get",
                                               !.share_count = @ + 1,
                                               !.calls = @ + 1]]
    /\ last' = [op |-> "track_share", status |-> 200,
                share_count |-> procs[p].share_count + 1]
    /\ UNCHANGED <<users, nextUserId, content, notifications, airDate, airResult>>
    /\ UNCHANGED engageVars
    /\ UNCHANGED guestVars

\* A published show that has not been shared, and processes about to share it
InitShare ==
    /\ users = InitUsers /\ nextUserId = NumUsers + 2
    /\ content = << >>
    /\ likes = {} /\ nextLikeId = 1
    /\ comments = {} /\ nextCommentId = 1
    /\ follows = {} /\ nextFollowId = 1
    /\ notifications = << >>
    /\ guestRequests = {} /\ nextGuestRequestId = 1
    /\ guests = << >>
    /\ toggleHist = << >>
    /\ procs = [ p \in Procs |-> [pc |-> "get", share_count |-> 0, calls |-> 0] ]
    /\ airShow = [is_recurring |-> FALSE, recurrence_type |-> "NULL",
                  day_of_week |-> NoDay, cancelled_instances |-> << >>,
                  status |-> "published", share_count |-> 0]
    /\ airDate = NoDate
    /\ airResult = "unset"
    /\ last = NoRequest

NextShare ==
    \/ \E p \in Procs : ShareGet(p)
    \/ \E p \in Procs : ShareSave(p)

SpecShare == InitShare /\ [][NextShare]_vars

\* The number of track_share calls the processes 1..n have completed
RECURSIVE CompletedShares(_)
CompletedShares(n) == IF n = 0 THEN 0 ELSE procs[n].calls + CompletedShares(n - 1)

\* C28: in any interleaving of concurrent track_share calls the show's
\* share_count is the number of completed calls: every call raises it by exactly
\* 1 and no increment is lost.
C28_NoLostShare ==
    airShow.share_count = CompletedShares(NumProcs)

\* ------------------------------------------------------------------------
\* Wallet login: UserViewSet.wallet_login_or_check after complete_setup
\* ------------------------------------------------------------------------
\* WalletLoginOrCheckSerializer.validate_wallet_address (the field is required
\* and may not be blank)
ValidateWalletAddressOfLogin(value) ==
    /\ value # WalletBlank
    /\ StartsWith(value, << "S", "P" >>) \/ StartsWith(value, << "S", "T" >>)
    /\ ~(Len(value) < 38 \/ Len(value) > 45)

\* POST /api/users/wallet-login-or-check/
WalletLoginOrCheck(wallet) ==
    /\ UNCHANGED <<users, nextUserId, content, notifications>>
    /\ UNCHANGED engageVars
    /\ UNCHANGED guestVars
    /\ UNCHANGED airVars
    /\ UNCHANGED procs
    /\ IF ~ValidateWalletAddressOfLogin(wallet)
         THEN last' = [op |-> "wallet_login_or_check", wallet_address |-> wallet,
                       status |-> 400, is_new |-> "absent", user |-> None,
                       tokens |-> FALSE]
       ELSE IF WalletRegistered(users, wallet)
         THEN last' = [op |-> "wallet_login_or_check", wallet_address |-> wallet,
                       status |-> 200, is_new |-> "false",
                       user |-> (CHOOSE u \in users : u.stacks_address = wallet).id,
                       tokens |-> TRUE]
       ELSE last' = [op |-> "wallet_login_or_check", wallet_address |-> wallet,
                     status |-> 200, is_new |-> "true", user |-> None,
                     tokens |-> FALSE]

NextLogin ==
    \/ \E wallet \in Wallets, username \in { NoUsername, << "b", "o", "b" >> },
          hex \in UuidHex :
          CompleteSetup(wallet, username, "user", hex)
    \/ \E wallet \in Wallets : WalletLoginOrCheck(wallet)

SpecLogin == InitSetup /\ [][NextLogin]_vars

\* C24: a wallet_login_or_check with a wallet address for which complete_setup
\* has succeeded returns is_new = false with that user and tokens; with an
\* address complete_setup accepts but has not yet registered it returns
\* is_new = true; and it never creates a user.
C24_LoginAfterSetup ==
    [][ last'.op = "wallet_login_or_check" =>
          LET w == last'.wallet_address
          IN  /\ users' = users
              /\ WalletRegistered(users, w)
                    => /\ last'.status = 200
                       /\ last'.is_new = "false"
                       /\ last'.tokens
                       /\ \E u \in users : u.id = last'.user /\ u.stacks_address = w
              /\ ValidateWalletAddress(users, w)
                    => (last'.status = 200 /\ last'.is_new = "true") ]_vars

====
